---- MODULE Spec2Model ----
(***************************************************************************)
(* A model of mlspp: the TLS-presentation wire codec (tls_syntax.cpp), the *)
(* message types (messages.h), the key, KDF and HPKE layer (crypto.cpp)    *)
(* and, from the design document, the ratchet tree and the group state     *)
(* machine.                                                                *)
(*                                                                         *)
(* Unsigned integers are kept at their width.  A uint64_t is a tuple of    *)
(* four 16-bit limbs, most significant first, so that shifts, truncations  *)
(* and wrap-around are computed and not assumed.                           *)
(***************************************************************************)
EXTENDS Integers, Sequences, FiniteSets, TLC

VARIABLES
  \* wire codec: one marshal / unmarshal / marshal round
  cphase, constructed, wire, unmarshaled, rewire,
  \* crypto layer: the DH key type of the build, one HPKE exchange, one
  \* UserInitKey being signed and verified, one key derivation
  dh_key_type, hpke, signing, kdf,
  \* ratchet tree: one tree built from secrets, blanked, marshalled, and
  \* one path update from a leaf received at another
  rt,
  \* group: the GroupState of each participant, the leaf secrets it has
  \* cached, the handshakes sent so far, the handshakes each participant
  \* has applied and the last call of apply
  gstate, cached, network, applied, call,
  \* AES-GCM: one context constructed
  aead,
  \* tls::ostream and tls::istream: one buffer written to, one input read
  stream,
  \* key objects: the private key objects of a scope, the last comparison
  \* and the last parse of a public key
  keys,
  \* one GroupOperation object as its constructor leaves it
  gop,
  \* Scoped<T>: the handles of a scope and the native objects allocated
  scoped

codecVars == <<cphase, constructed, wire, unmarshaled, rewire>>

cryptoVars == <<dh_key_type, hpke, signing, kdf>>

treeVars == <<rt>>

groupVars == <<gstate, cached, network, applied, call>>

aeadVars == <<aead>>

streamVars == <<stream>>

keyVars == <<keys>>

opVars == <<gop>>

scopedVars == <<scoped>>

vars ==
  <<codecVars, cryptoVars, treeVars, groupVars, aeadVars, streamVars, keyVars,
    opVars, scopedVars>>

\* what the steps of one layer leave alone
notCodec ==
  <<cryptoVars, treeVars, groupVars, aeadVars, streamVars, keyVars,
    opVars, scopedVars>>
notCrypto ==
  <<codecVars, treeVars, groupVars, aeadVars, streamVars, keyVars,
    opVars, scopedVars>>
notTree ==
  <<codecVars, hpke, signing, kdf, groupVars, aeadVars, streamVars, keyVars,
    opVars, scopedVars>>
notGroup ==
  <<codecVars, hpke, signing, kdf, treeVars, aeadVars, streamVars, keyVars,
    opVars, scopedVars>>
notAead ==
  <<codecVars, cryptoVars, treeVars, groupVars, streamVars, keyVars,
    opVars, scopedVars>>
notStream ==
  <<codecVars, cryptoVars, treeVars, groupVars, aeadVars, keyVars,
    opVars, scopedVars>>
notOp ==
  <<codecVars, cryptoVars, treeVars, groupVars, aeadVars, streamVars, keyVars,
    scopedVars>>
notScoped ==
  <<codecVars, cryptoVars, treeVars, groupVars, aeadVars, streamVars, keyVars,
    opVars>>
notKeys ==
  <<codecVars, hpke, signing, kdf, treeVars, groupVars, aeadVars, streamVars,
    opVars, scopedVars>>

\* no AES-GCM context, no stream and no key object has been made
UnitsIdle ==
  /\ aead = [phase |-> "idle"]
  /\ stream = [phase |-> "idle"]
  /\ keys = [phase |-> "idle"]
  /\ gop = [phase |-> "idle"]
  /\ scoped = [phase |-> "idle"]

\* no tree has been built
TreeIdle == rt = [phase |-> "idle"]

\* no group has been created
GroupIdle ==
  /\ gstate = <<>>
  /\ cached = <<>>
  /\ network = <<>>
  /\ applied = <<>>
  /\ call = [error |-> "idle"]

\* bounds of the model
MaxBytes == 2
MaxNodes == 2

-----------------------------------------------------------------------------
(* uint64_t arithmetic on limbs *)

Limb == 256 * 256

U64(hi, lo) == <<0, 0, hi, lo>>

\* a small natural number as a uint64_t
Nat64(n) == <<0, 0, n \div Limb, n % Limb>>

\* the low 31 bits of a value, as a natural number (lengths, counts)
ToNat(v) == (v[3] % 32768) * Limb + v[4]

\* uint8_t(value >> 8*i)
ByteOf(value, i) ==
  LET limb == value[4 - (i \div 2)]
  IN  IF i % 2 = 1 THEN limb \div 256 ELSE limb % 256

\* value << 8 on 64 bits
Shl8(value) ==
  [k \in 1..4 |->
     (value[k] % 256) * 256 + (IF k < 4 THEN value[k + 1] \div 256 ELSE 0)]

\* value + byte on 64 bits, carries propagated, wrapping at 2^64
AddByte(value, b) ==
  LET s4 == value[4] + b
      s3 == value[3] + (s4 \div Limb)
      s2 == value[2] + (s3 \div Limb)
      s1 == value[1] + (s2 \div Limb)
  IN  <<s1 % Limb, s2 % Limb, s3 % Limb, s4 % Limb>>

\* the conversion of a uint64_t to an unsigned type of `length` bytes
Truncate(value, length) ==
  CASE length = 1 -> <<0, 0, 0, value[4] % 256>>
    [] length = 2 -> <<0, 0, 0, value[4]>>
    [] length = 3 -> <<0, 0, value[3] % 256, value[4]>>
    [] length = 4 -> <<0, 0, value[3], value[4]>>
    [] OTHER      -> value

Reverse(s) == [k \in 1..Len(s) |-> s[Len(s) + 1 - k]]

-----------------------------------------------------------------------------
(* tls::ostream and tls::istream *)

\* ostream::write_raw: the bytes are appended
ostream_write_raw(buffer, bytes) == buffer \o bytes

\* a variant of write_uint that emits the least significant byte first
write_uint_little_endian(buffer, value, length) ==
  buffer \o [k \in 1..length |-> ByteOf(value, k - 1)]

\* ostream::write_uint: for (i = length - 1; i >= 0; i -= 1)
\*                        _buffer.push_back(value >> unsigned(8 * i));
ostream_write_uint(buffer, value, length) ==
  buffer \o [k \in 1..length |-> ByteOf(value, length - k)]

\* the reader's result: ok, the value read, the buffer left
Failed == [ok |-> FALSE, val |-> <<>>, buf |-> <<>>]
Read(v, b) == [ok |-> TRUE, val |-> v, buf |-> b]

\* a read that throws ends the reads after it: `rest` maps the value that was
\* read to the result of the remaining reads and has an empty domain when the
\* read threw
Ok(r) == IF r.ok THEN {r} ELSE {}
Then(rest) ==
  IF DOMAIN rest = {} THEN Failed ELSE rest[CHOOSE r \in DOMAIN rest : TRUE]

\* istream(data): the reader keeps its input reversed, so that the head of
\* the input is at the back of _buffer
istream_new(data) == Reverse(data)

\* a variant of next that takes the front of the buffer
istream_next_front(buffer) ==
  IF buffer = <<>>
  THEN Failed
  ELSE Read(buffer[1], SubSeq(buffer, 2, Len(buffer)))

\* istream::next: throws on an empty buffer, otherwise takes the back
istream_next(buffer) ==
  IF buffer = <<>>
  THEN Failed
  ELSE Read(buffer[Len(buffer)], SubSeq(buffer, 1, Len(buffer) - 1))

RECURSIVE read_uint_loop(_, _, _)
read_uint_loop(buffer, value, left) ==
  IF left = 0
  THEN Read(value, buffer)
  ELSE Then([n \in Ok(istream_next(buffer)) |->
            read_uint_loop(n.buf, AddByte(Shl8(value), n.val), left - 1)])

\* istream::read_uint<T>: value = (value << 8) + next(), length times;
\* data = value converts to T
istream_read_uint(buffer, length) ==
  Then([r \in Ok(read_uint_loop(buffer, <<0, 0, 0, 0>>, length)) |->
    Read(Truncate(r.val, length), r.buf)])

-----------------------------------------------------------------------------
(* Key material.  A curve is modelled by a small multiplicative group: a   *)
(* private scalar d has the public point g^d mod p.  An EVP_PKEY holds the *)
(* public point, its SEC1 conversion form (P-256 only) and, for a private  *)
(* key, the scalar.                                                        *)

KeyTypes == {"P256", "X25519"}

NullPKEY == [type |-> "none", pub |-> 0, form |-> 0, priv |-> 0]

RECURSIVE ModExp(_, _, _)
ModExp(b, e, m) ==
  IF e = 0
  THEN 1
  ELSE IF e % 2 = 1
       THEN (b * ModExp(b, e - 1, m)) % m
       ELSE ModExp((b * b) % m, e \div 2, m)

\* The two DH groups stand for the two curves: the subgroup of prime order
\* q of the integers modulo a safe prime p = 2q + 1, generated by 4.  A
\* point is one byte, a private scalar is in 1..q-1, and d * P is P^d mod p.
FieldPrime(kt) == IF kt = "P256" THEN 227 ELSE 167

\* d * G on the curve of the key type
BasePoint(kt, d) == ModExp(4, d, FieldPrime(kt))
\* d * P
ScalarMult(kt, d, pt) == ModExp(pt, d, FieldPrime(kt))
\* the number of private scalars of the curve
GroupOrder(kt) == (FieldPrime(kt) - 1) \div 2
\* the y coordinate of the P-256 point with x coordinate x
PointY(x) == (x * x * x + 7) % FieldPrime("P256")
OnCurve(x) ==
  x \in 1..(FieldPrime("P256") - 1) /\ ScalarMult("P256", GroupOrder("P256"), x) = 1

\* i2o_ECPublicKey: SEC1 bytes in the key's conversion form
i2o_ECPublicKey(pkey) ==
  IF pkey.form = 4
  THEN <<4, pkey.pub, PointY(pkey.pub)>>
  ELSE <<2 + (PointY(pkey.pub) % 2), pkey.pub>>

\* o2i_ECPublicKey: the point, or failure; the form is taken from the
\* first byte
o2i_ECPublicKey(data) ==
  IF /\ Len(data) = 3 /\ data[1] = 4 /\ OnCurve(data[2])
     /\ data[3] = PointY(data[2])
  THEN [ok |-> TRUE, key |-> [type |-> "EC", pub |-> data[2], form |-> 4, priv |-> 0]]
  ELSE IF /\ Len(data) = 2 /\ data[1] \in {2, 3} /\ OnCurve(data[2])
          /\ data[1] = 2 + (PointY(data[2]) % 2)
       THEN [ok |-> TRUE, key |-> [type |-> "EC", pub |-> data[2], form |-> 2, priv |-> 0]]
       ELSE [ok |-> FALSE, key |-> NullPKEY]

\* X25519Key::marshal / P256Key::marshal; both throw on a null key
OpenSSLKey_marshal(k) ==
  IF k.key = NullPKEY
  THEN [ok |-> FALSE, val |-> <<>>]
  ELSE IF k.kt = "X25519"
       THEN [ok |-> TRUE, val |-> <<k.key.pub>>]
       ELSE [ok |-> TRUE, val |-> i2o_ECPublicKey(k.key)]

\* a variant of set_public that accepts the octets and keeps the key it had
set_public_ignored(k, data) == [ok |-> TRUE, key |-> k]

\* a variant of set_public that lets go of the key it holds before the new
\* one is built
set_public_resetting(k, data) ==
  IF k.kt = "X25519" /\ Len(data) = 1
  THEN [ok |-> TRUE,
        key |-> [k EXCEPT !.key = [type |-> "X25519", pub |-> data[1],
                                   form |-> 0, priv |-> 0]]]
  ELSE IF k.kt # "X25519" /\ o2i_ECPublicKey(data).ok
       THEN [ok |-> TRUE, key |-> [k EXCEPT !.key = o2i_ECPublicKey(data).key]]
       ELSE [ok |-> FALSE, key |-> [k EXCEPT !.key = NullPKEY]]

\* X25519Key::set_public / P256Key::set_public: the new key is built first
\* and _key is reset only when that succeeded
OpenSSLKey_set_public(k, data) ==
  IF k.kt = "X25519"
  THEN IF Len(data) = 1
       THEN [ok |-> TRUE,
             key |-> [k EXCEPT !.key = [type |-> "X25519", pub |-> data[1],
                                        form |-> 0, priv |-> 0]]]
       ELSE [ok |-> FALSE, key |-> k]
  ELSE IF o2i_ECPublicKey(data).ok
       THEN [ok |-> TRUE, key |-> [k EXCEPT !.key = o2i_ECPublicKey(data).key]]
       ELSE [ok |-> FALSE, key |-> k]

\* OpenSSLKey::create
OpenSSLKey_create(kt) == [kt |-> kt, key |-> NullPKEY]

\* EVP_PKEY_cmp: 1 when the types and the public parts agree
EVP_PKEY_cmp(a, b) ==
  IF a.type # b.type THEN -1 ELSE IF a.pub = b.pub THEN 1 ELSE 0

\* OpenSSLKey::operator==
OpenSSLKey_eq(a, b) ==
  IF (a.key # NullPKEY) # (b.key # NullPKEY)
  THEN FALSE
  ELSE IF a.key = NullPKEY
       THEN TRUE
       ELSE EVP_PKEY_cmp(a.key, b.key) = 1

\* a public key object holding the point of scalar d
PublicKeyOf(kt, d) ==
  [kt |-> kt,
   key |-> [type |-> IF kt = "P256" THEN "EC" ELSE "X25519",
            pub |-> BasePoint(kt, d),
            form |-> IF kt = "P256" THEN 4 ELSE 0,
            priv |-> 0]]

-----------------------------------------------------------------------------
(* Length-prefixed strings and vectors of the presentation language *)

\* opaque<L>: the length in L bytes, then the bytes
write_opaque(buffer, bytes, L) ==
  ostream_write_raw(ostream_write_uint(buffer, Nat64(Len(bytes)), L), bytes)

\* the framed part of a vector<T, L>: the L-byte length, then that many
\* bytes, kept in the reader's order for a sub-reader; the rest stays
read_frame(buffer, L) ==
  Then([r \in Ok(istream_read_uint(buffer, L)) |->
         IF ToNat(r.val) > Len(r.buf)
         THEN Failed
         ELSE Read(SubSeq(r.buf, Len(r.buf) - ToNat(r.val) + 1, Len(r.buf)),
                   SubSeq(r.buf, 1, Len(r.buf) - ToNat(r.val)))])

\* opaque<L>: the framed bytes, head first
read_opaque(buffer, L) ==
  Then([f \in Ok(read_frame(buffer, L)) |-> Read(Reverse(f.val), f.buf)])

\* vector<uintN, L>
RECURSIVE write_uint_list(_, _, _)
write_uint_list(buffer, list, width) ==
  IF list = <<>>
  THEN buffer
  ELSE write_uint_list(ostream_write_uint(buffer, Nat64(list[1]), width),
                       Tail(list), width)

RECURSIVE read_uint_list(_, _, _)
read_uint_list(sub, width, acc) ==
  IF sub = <<>>
  THEN Read(acc, <<>>)
  ELSE Then([r \in Ok(istream_read_uint(sub, width)) |->
         read_uint_list(r.buf, width, Append(acc, ToNat(r.val)))])

\* vector<opaque<2>, L>
RECURSIVE write_opaque_list(_, _)
write_opaque_list(buffer, list) ==
  IF list = <<>>
  THEN buffer
  ELSE write_opaque_list(write_opaque(buffer, list[1], 2), Tail(list))

RECURSIVE read_opaque_list(_, _)
read_opaque_list(sub, acc) ==
  IF sub = <<>>
  THEN Read(acc, <<>>)
  ELSE Then([r \in Ok(read_opaque(sub, 2)) |-> read_opaque_list(r.buf, Append(acc, r.val))])

-----------------------------------------------------------------------------
(* Keys and HPKE ciphertexts on the wire *)

SuiteKeyType(suite) == IF suite = 0 THEN "P256" ELSE "X25519"

\* operator<<(tls::ostream&, const DHPublicKey&) and the same operator of
\* SignaturePublicKey: to_bytes() as a vector<uint8_t, 2>
PublicKey_write(buffer, k) ==
  write_opaque(buffer, OpenSSLKey_marshal(k).val, 2)

\* the key read from the stream, when set_public accepted the octets
PublicKey_reset(s, buffer) == IF s.ok THEN Read(s.key, buffer) ELSE Failed

\* operator>>(tls::istream&, DHPublicKey&): the bytes are read, then
\* obj.reset(data)
PublicKey_read(buffer, kt) ==
  Then([r \in Ok(read_opaque(buffer, 2)) |->
    PublicKey_reset(OpenSSLKey_set_public(OpenSSLKey_create(kt), r.val),
                                  r.buf)])

\* operator<<(tls::ostream&, const ECIESCiphertext&)
ECIESCiphertext_write(buffer, ct) ==
  write_opaque(PublicKey_write(buffer, ct.ephemeral), ct.content, 3)

\* operator>>(tls::istream&, ECIESCiphertext&)
ECIESCiphertext_read(buffer, kt) ==
  Then([e \in Ok(PublicKey_read(buffer, kt)) |->
  Then([c \in Ok(read_opaque(e.buf, 3)) |->
  Read([ephemeral |-> e.val, content |-> c.val], c.buf)])])

ECIESCiphertext_eq(a, b) ==
  OpenSSLKey_eq(a.ephemeral, b.ephemeral) /\ a.content = b.content

RECURSIVE write_ciphertexts(_, _)
write_ciphertexts(buffer, list) ==
  IF list = <<>>
  THEN buffer
  ELSE write_ciphertexts(ECIESCiphertext_write(buffer, list[1]), Tail(list))

RECURSIVE read_ciphertexts(_, _, _)
read_ciphertexts(sub, kt, acc) ==
  IF sub = <<>>
  THEN Read(acc, <<>>)
  ELSE Then([r \in Ok(ECIESCiphertext_read(sub, kt)) |->
         read_ciphertexts(r.buf, kt, Append(acc, r.val))])

\* a vector body of unknown length is written to a buffer of its own and
\* then framed
Framed(buffer, body, L) == write_opaque(buffer, body, L)

\* RatchetNode: DHPublicKey public_key; HPKECiphertext node_secrets<0..2^16-1>
RatchetNode_write(buffer, n) ==
  Framed(PublicKey_write(buffer, n.public_key),
         write_ciphertexts(<<>>, n.node_secrets), 2)

RatchetNode_read(buffer, kt) ==
  Then([k \in Ok(PublicKey_read(buffer, kt)) |->
  Then([f \in Ok(read_frame(k.buf, 2)) |->
  Then([l \in Ok(read_ciphertexts(f.val, kt, <<>>)) |->
  Read([public_key |-> k.val, node_secrets |-> l.val], f.buf)])])])

RatchetNode_eq(a, b) ==
  /\ OpenSSLKey_eq(a.public_key, b.public_key)
  /\ Len(a.node_secrets) = Len(b.node_secrets)
  /\ \A i \in 1..Len(a.node_secrets) :
       ECIESCiphertext_eq(a.node_secrets[i], b.node_secrets[i])

RECURSIVE write_nodes(_, _)
write_nodes(buffer, list) ==
  IF list = <<>>
  THEN buffer
  ELSE write_nodes(RatchetNode_write(buffer, list[1]), Tail(list))

RECURSIVE read_nodes(_, _, _)
read_nodes(sub, kt, acc) ==
  IF sub = <<>>
  THEN Read(acc, <<>>)
  ELSE Then([r \in Ok(RatchetNode_read(sub, kt)) |-> read_nodes(r.buf, kt, Append(acc, r.val))])

\* DirectPath: RatchetNode nodes<0..2^16-1>
DirectPath_write(buffer, path) == Framed(buffer, write_nodes(<<>>, path.nodes), 2)

DirectPath_read(buffer, suite) ==
  Then([f \in Ok(read_frame(buffer, 2)) |->
  Then([l \in Ok(read_nodes(f.val, SuiteKeyType(suite), <<>>)) |->
  Read([suite |-> suite, nodes |-> l.val], f.buf)])])

DirectPath_eq(a, b) ==
  /\ Len(a.nodes) = Len(b.nodes)
  /\ \A i \in 1..Len(a.nodes) : RatchetNode_eq(a.nodes[i], b.nodes[i])

-----------------------------------------------------------------------------
(* Credential, UserInitKey, Roster, tree, WelcomeInfo, Welcome *)

SIG_KEY_TYPE == "P256"
mls10Version == 0

\* Credential (basic): the variant tag, the identity, the signature key
Credential_write(buffer, c) ==
  PublicKey_write(write_opaque(ostream_write_uint(buffer, Nat64(0), 1),
                               c.identity, 2),
                  c.public_key)

Credential_read(buffer) ==
  Then([t \in Ok(istream_read_uint(buffer, 1)) |->
  IF ToNat(t.val) # 0
  THEN Failed
  ELSE Then([i \in Ok(read_opaque(t.buf, 2)) |->
       Then([k \in Ok(PublicKey_read(i.buf, SIG_KEY_TYPE)) |->
       Read([identity |-> i.val, public_key |-> k.val], k.buf)])])])

Credential_eq(a, b) ==
  a.identity = b.identity /\ OpenSSLKey_eq(a.public_key, b.public_key)

\* Credential(): no identity, a signature key without key material
Credential_default ==
  [identity |-> <<>>, public_key |-> OpenSSLKey_create(SIG_KEY_TYPE)]

\* UserInitKey(): supported_versions(1, mls10Version)
UserInitKey_default ==
  [user_init_key_id |-> <<>>, supported_versions |-> <<mls10Version>>,
   cipher_suites |-> <<>>, init_keys |-> <<>>,
   credential |-> Credential_default, signature |-> <<>>]

\* UserInitKey::add_init_key: the suite and the marshalled key are appended
UserInitKey_add_init_key(uik, suite, pub) ==
  [uik EXCEPT !.cipher_suites = Append(@, suite),
              !.init_keys = Append(@, OpenSSLKey_marshal(pub).val)]

\* UserInitKey::to_be_signed: every field before the signature
UserInitKey_to_be_signed(uik) ==
  Credential_write(
    Framed(
      Framed(
        Framed(write_opaque(<<>>, uik.user_init_key_id, 1),
               write_uint_list(<<>>, uik.supported_versions, 1), 1),
        write_uint_list(<<>>, uik.cipher_suites, 2), 1),
      write_opaque_list(<<>>, uik.init_keys), 2),
    uik.credential)

UserInitKey_write(buffer, uik) ==
  write_opaque(ostream_write_raw(buffer, UserInitKey_to_be_signed(uik)),
               uik.signature, 2)

UserInitKey_read(buffer) ==
  Then([i \in Ok(read_opaque(buffer, 1)) |->
  Then([vf \in Ok(read_frame(i.buf, 1)) |->
  Then([v \in Ok(read_uint_list(vf.val, 1, <<>>)) |->
  Then([sf \in Ok(read_frame(vf.buf, 1)) |->
  Then([su \in Ok(read_uint_list(sf.val, 2, <<>>)) |->
  Then([kf \in Ok(read_frame(sf.buf, 2)) |->
  Then([k \in Ok(read_opaque_list(kf.val, <<>>)) |->
  Then([c \in Ok(Credential_read(kf.buf)) |->
  Then([g \in Ok(read_opaque(c.buf, 2)) |->
  Read([user_init_key_id |-> i.val, supported_versions |-> v.val,
        cipher_suites |-> su.val, init_keys |-> k.val,
        credential |-> c.val, signature |-> g.val], g.buf)])])])])])])])])])

UserInitKey_eq(a, b) ==
  /\ a.user_init_key_id = b.user_init_key_id
  /\ a.supported_versions = b.supported_versions
  /\ a.cipher_suites = b.cipher_suites
  /\ a.init_keys = b.init_keys
  /\ Credential_eq(a.credential, b.credential)
  /\ a.signature = b.signature

\* optional<T>: a present/absent flag, then T when present.  An absent
\* entry is the value Blank.
Blank == [blank |-> TRUE]

RECURSIVE write_roster_entries(_, _)
write_roster_entries(buffer, list) ==
  IF list = <<>>
  THEN buffer
  ELSE write_roster_entries(
         IF list[1] = Blank
         THEN ostream_write_uint(buffer, Nat64(0), 1)
         ELSE Credential_write(ostream_write_uint(buffer, Nat64(1), 1), list[1]),
         Tail(list))

RECURSIVE read_roster_entries(_, _)
read_roster_entries(sub, acc) ==
  IF sub = <<>>
  THEN Read(acc, <<>>)
  ELSE Then([f \in Ok(istream_read_uint(sub, 1)) |->
       IF ToNat(f.val) = 0
       THEN read_roster_entries(f.buf, Append(acc, Blank))
       ELSE IF ToNat(f.val) # 1
            THEN Failed
            ELSE Then([c \in Ok(Credential_read(f.buf)) |->
                 read_roster_entries(c.buf, Append(acc, c.val))])])

\* Roster: optional<Credential> entries under a 4-byte length
Roster_write(buffer, roster) == Framed(buffer, write_roster_entries(<<>>, roster), 4)

Roster_read(buffer) ==
  Then([f \in Ok(read_frame(buffer, 4)) |->
  Then([l \in Ok(read_roster_entries(f.val, <<>>)) |-> Read(l.val, f.buf)])])

Roster_eq(a, b) ==
  /\ Len(a) = Len(b)
  /\ \A i \in 1..Len(a) :
       IF a[i] = Blank \/ b[i] = Blank
       THEN a[i] = Blank /\ b[i] = Blank
       ELSE Credential_eq(a[i], b[i])

\* A tree node is Blank or filled: a public key, and the private scalar
\* and the path secret when the holder knows them (0 and NoSecret when
\* not).
\* a node of which only the public key is known
NoSecret == <<>>

PublicNode(pub) == [public_key |-> pub, priv |-> 0, secret |-> NoSecret]

\* an empty tree: the nodes, and the root secret of the last path update
RatchetTree_new == [nodes |-> <<>>, root_secret |-> <<>>]

RECURSIVE write_tree_nodes(_, _)
write_tree_nodes(buffer, list) ==
  IF list = <<>>
  THEN buffer
  ELSE write_tree_nodes(
         IF list[1] = Blank
         THEN ostream_write_uint(buffer, Nat64(0), 1)
         ELSE PublicKey_write(ostream_write_uint(buffer, Nat64(1), 1),
                              list[1].public_key),
         Tail(list))

RECURSIVE read_tree_nodes(_, _, _)
read_tree_nodes(sub, kt, acc) ==
  IF sub = <<>>
  THEN Read(acc, <<>>)
  ELSE Then([f \in Ok(istream_read_uint(sub, 1)) |->
       IF ToNat(f.val) = 0
       THEN read_tree_nodes(f.buf, kt, Append(acc, Blank))
       ELSE IF ToNat(f.val) # 1
            THEN Failed
            ELSE Then([k \in Ok(PublicKey_read(f.buf, kt)) |->
                 read_tree_nodes(k.buf, kt, Append(acc, PublicNode(k.val)))])])

\* RatchetTree on the wire: optional<HPKEPublicKey> tree<1..2^32-1>; only
\* public keys are written
RatchetTree_write(buffer, nodes) == Framed(buffer, write_tree_nodes(<<>>, nodes), 4)

RatchetTree_read(buffer, kt) ==
  Then([f \in Ok(read_frame(buffer, 4)) |->
  Then([l \in Ok(read_tree_nodes(f.val, kt, <<>>)) |-> Read(l.val, f.buf)])])

\* a variant of the tree comparison that also compares what each holder
\* knows of the private keys
RatchetTree_eq_with_private(a, b) ==
  /\ Len(a) = Len(b)
  /\ \A i \in 1..Len(a) :
       IF a[i] = Blank \/ b[i] = Blank
       THEN a[i] = Blank /\ b[i] = Blank
       ELSE /\ OpenSSLKey_eq(a[i].public_key, b[i].public_key)
            /\ a[i].priv = b[i].priv

\* operator==(RatchetTree, RatchetTree): element-wise, on blank/filled
\* status and on the public key
RatchetTree_eq(a, b) ==
  /\ Len(a) = Len(b)
  /\ \A i \in 1..Len(a) :
       IF a[i] = Blank \/ b[i] = Blank
       THEN a[i] = Blank /\ b[i] = Blank
       ELSE OpenSSLKey_eq(a[i].public_key, b[i].public_key)

\* WelcomeInfo: version, group_id, epoch, roster, tree, transcript_hash,
\* init_secret
WelcomeInfo_write(buffer, w) ==
  write_opaque(
    write_opaque(
      RatchetTree_write(
        Roster_write(
          ostream_write_uint(
            write_opaque(ostream_write_uint(buffer, Nat64(w.version), 1),
                         w.group_id, 1),
            w.epoch, 4),
          w.roster),
        w.tree),
      w.transcript_hash, 1),
    w.init_secret, 1)

WelcomeInfo_read(buffer, suite) ==
  Then([v \in Ok(istream_read_uint(buffer, 1)) |->
  Then([g \in Ok(read_opaque(v.buf, 1)) |->
  Then([e \in Ok(istream_read_uint(g.buf, 4)) |->
  Then([r \in Ok(Roster_read(e.buf)) |->
  Then([t \in Ok(RatchetTree_read(r.buf, SuiteKeyType(suite))) |->
  Then([h \in Ok(read_opaque(t.buf, 1)) |->
  Then([i \in Ok(read_opaque(h.buf, 1)) |->
  Read([suite |-> suite, version |-> ToNat(v.val), group_id |-> g.val,
        epoch |-> e.val, roster |-> r.val, tree |-> t.val,
        transcript_hash |-> h.val, init_secret |-> i.val], i.buf)])])])])])])])

WelcomeInfo_eq(a, b) ==
  /\ a.version = b.version
  /\ a.group_id = b.group_id
  /\ a.epoch = b.epoch
  /\ Roster_eq(a.roster, b.roster)
  /\ RatchetTree_eq(a.tree, b.tree)
  /\ a.transcript_hash = b.transcript_hash
  /\ a.init_secret = b.init_secret

\* Welcome: user_init_key_id, cipher_suite, encrypted_welcome_info; the
\* ciphertext is parsed under the suite just read
Welcome_write(buffer, w) ==
  ECIESCiphertext_write(
    ostream_write_uint(write_opaque(buffer, w.user_init_key_id, 1),
                       Nat64(w.cipher_suite), 2),
    w.encrypted_welcome_info)

Welcome_read(buffer) ==
  Then([i \in Ok(read_opaque(buffer, 1)) |->
  Then([s \in Ok(istream_read_uint(i.buf, 2)) |->
  IF ToNat(s.val) \notin {0, 1}
  THEN Failed
  ELSE Then([c \in Ok(ECIESCiphertext_read(s.buf, SuiteKeyType(ToNat(s.val)))) |->
       Read([user_init_key_id |-> i.val, cipher_suite |-> ToNat(s.val),
             encrypted_welcome_info |-> c.val], c.buf)])])])

Welcome_eq(a, b) ==
  /\ a.user_init_key_id = b.user_init_key_id
  /\ a.cipher_suite = b.cipher_suite
  /\ ECIESCiphertext_eq(a.encrypted_welcome_info, b.encrypted_welcome_info)

-----------------------------------------------------------------------------
(* Group operations and the Handshake (messages.h) *)

DUMMY_CIPHERSUITE == 0

\* enum class GroupOperationType : uint8_t
GroupOperationType_add == 1
GroupOperationType_update == 2
GroupOperationType_remove == 3

\* DirectPath(CipherSuite suite)
DirectPath_new(suite) == [suite |-> suite, nodes |-> <<>>]

\* Add(): nothing is set; Add(index, init_key, welcome_info_hash)
Add_default ==
  [index |-> Nat64(0), init_key |-> UserInitKey_default, welcome_info_hash |-> <<>>]
Add_new(index, init_key, welcome_info_hash) ==
  [index |-> index, init_key |-> init_key, welcome_info_hash |-> welcome_info_hash]

\* Update(CipherSuite suite); Update(const DirectPath& path)
Update_new(suite) == [suite |-> suite, path |-> DirectPath_new(suite)]
Update_from_path(path) == [suite |-> path.suite, path |-> path]

\* Remove(CipherSuite suite); Remove(LeafIndex removed, const DirectPath& path)
Remove_new(suite) ==
  [suite |-> suite, removed |-> Nat64(0), path |-> DirectPath_new(suite)]
Remove_from(removed, path) ==
  [suite |-> path.suite, removed |-> removed, path |-> path]

\* GroupOperation(CipherSuite suite): `type` is not initialised; `junk` is
\* the value the storage happens to hold
GroupOperation_new(suite, junk) ==
  [suite |-> suite, type |-> junk, add |-> Add_default,
   update |-> Update_new(suite), remove |-> Remove_new(suite)]

\* GroupOperation(): the same with DUMMY_CIPHERSUITE
GroupOperation_default(junk) == GroupOperation_new(DUMMY_CIPHERSUITE, junk)

\* GroupOperation(const Add& add)
GroupOperation_from_Add(add) ==
  [suite |-> DUMMY_CIPHERSUITE, type |-> GroupOperationType_add, add |-> add,
   update |-> Update_new(DUMMY_CIPHERSUITE),
   remove |-> Remove_new(DUMMY_CIPHERSUITE)]

\* GroupOperation(const Update& update)
GroupOperation_from_Update(update) ==
  [suite |-> update.suite, type |-> GroupOperationType_update,
   add |-> Add_default, update |-> update, remove |-> Remove_new(update.suite)]

\* GroupOperation(const Remove& remove)
GroupOperation_from_Remove(remove) ==
  [suite |-> remove.suite, type |-> GroupOperationType_remove,
   add |-> Add_default, update |-> Update_new(remove.suite), remove |-> remove]

\* Add: uint32 index; UserInitKey; opaque<1> welcome_info_hash
Add_write(buffer, a) ==
  write_opaque(UserInitKey_write(ostream_write_uint(buffer, a.index, 4), a.init_key),
               a.welcome_info_hash, 1)

Add_read(buffer) ==
  Then([i \in Ok(istream_read_uint(buffer, 4)) |->
  Then([u \in Ok(UserInitKey_read(i.buf)) |->
  Then([h \in Ok(read_opaque(u.buf, 1)) |->
  Read(Add_new(i.val, u.val, h.val), h.buf)])])])

Add_eq(a, b) ==
  /\ a.index = b.index
  /\ UserInitKey_eq(a.init_key, b.init_key)
  /\ a.welcome_info_hash = b.welcome_info_hash

\* Update: DirectPath
Update_write(buffer, u) == DirectPath_write(buffer, u.path)

Update_read(buffer, suite) ==
  Then([p \in Ok(DirectPath_read(buffer, suite)) |->
    Read([suite |-> suite, path |-> p.val], p.buf)])

Update_eq(a, b) == DirectPath_eq(a.path, b.path)

\* Remove: uint32 removed; DirectPath
Remove_write(buffer, r) ==
  DirectPath_write(ostream_write_uint(buffer, r.removed, 4), r.path)

Remove_read(buffer, suite) ==
  Then([i \in Ok(istream_read_uint(buffer, 4)) |->
  Then([p \in Ok(DirectPath_read(i.buf, suite)) |->
  Read([suite |-> suite, removed |-> i.val, path |-> p.val], p.buf)])])

Remove_eq(a, b) == a.removed = b.removed /\ DirectPath_eq(a.path, b.path)

\* GroupOperation: the type tag, then the arm the tag selects
GroupOperation_write(buffer, op) ==
  LET b == ostream_write_uint(buffer, Nat64(op.type), 1)
  IN  CASE op.type = GroupOperationType_add    -> Add_write(b, op.add)
        [] op.type = GroupOperationType_update -> Update_write(b, op.update)
        [] op.type = GroupOperationType_remove -> Remove_write(b, op.remove)
        [] OTHER -> b

\* the arm is read into the object as constructed for its suite
GroupOperation_read(buffer, obj) ==
  Then([t \in Ok(istream_read_uint(buffer, 1)) |->
  CASE ToNat(t.val) = GroupOperationType_add ->
         Then([a \in Ok(Add_read(t.buf)) |->
         Read([obj EXCEPT !.type = ToNat(t.val), !.add = a.val], a.buf)])
    [] ToNat(t.val) = GroupOperationType_update ->
         Then([u \in Ok(Update_read(t.buf, obj.suite)) |->
         Read([obj EXCEPT !.type = ToNat(t.val), !.update = u.val], u.buf)])
    [] ToNat(t.val) = GroupOperationType_remove ->
         Then([r \in Ok(Remove_read(t.buf, obj.suite)) |->
         Read([obj EXCEPT !.type = ToNat(t.val), !.remove = r.val], r.buf)])
    [] OTHER -> Failed])

GroupOperation_eq(a, b) ==
  /\ a.type = b.type
  /\ \/ a.type = GroupOperationType_add /\ Add_eq(a.add, b.add)
     \/ a.type = GroupOperationType_update /\ Update_eq(a.update, b.update)
     \/ a.type = GroupOperationType_remove /\ Remove_eq(a.remove, b.remove)

\* Handshake(epoch_t prior_epoch, const GroupOperation& operation,
\*           LeafIndex signer_index, const bytes& signature,
\*           const bytes& confirmation)
Handshake_new(prior_epoch, operation, signer_index, signature, confirmation) ==
  [suite |-> operation.suite, prior_epoch |-> prior_epoch,
   operation |-> operation, signer_index |-> signer_index,
   signature |-> signature, confirmation |-> confirmation]

\* Handshake(CipherSuite suite): the integer members are not initialised
Handshake_for_suite(suite, junk) ==
  [suite |-> suite, prior_epoch |-> Nat64(junk),
   operation |-> GroupOperation_new(suite, junk), signer_index |-> Nat64(junk),
   signature |-> <<>>, confirmation |-> <<>>]

\* Handshake: prior_epoch, operation, signer_index, signature, confirmation
Handshake_write(buffer, h) ==
  write_opaque(
    write_opaque(
      ostream_write_uint(
        GroupOperation_write(ostream_write_uint(buffer, h.prior_epoch, 4),
                             h.operation),
        h.signer_index, 4),
      h.signature, 2),
    h.confirmation, 1)

Handshake_read(buffer, obj) ==
  Then([e \in Ok(istream_read_uint(buffer, 4)) |->
  Then([o \in Ok(GroupOperation_read(e.buf, obj.operation)) |->
  Then([i \in Ok(istream_read_uint(o.buf, 4)) |->
  Then([g \in Ok(read_opaque(i.buf, 2)) |->
  Then([c \in Ok(read_opaque(g.buf, 1)) |->
  Read([obj EXCEPT !.prior_epoch = e.val, !.operation = o.val,
                   !.signer_index = i.val, !.signature = g.val,
                   !.confirmation = c.val], c.buf)])])])])])

Handshake_eq(a, b) ==
  /\ a.prior_epoch = b.prior_epoch
  /\ GroupOperation_eq(a.operation, b.operation)
  /\ a.signer_index = b.signer_index
  /\ a.signature = b.signature
  /\ a.confirmation = b.confirmation

-----------------------------------------------------------------------------
(* The round trip of tls_round_trip: marshal the constructed value,       *)
(* unmarshal the bytes into a fresh object, marshal that again.           *)

RECURSIVE SeqsUpTo(_, _)
SeqsUpTo(S, n) ==
  IF n = 0
  THEN {<<>>}
  ELSE LET shorter == SeqsUpTo(S, n - 1)
       IN  shorter \cup {Append(q, x) : q \in shorter, x \in S}

\* opaque values: every string over two byte values up to MaxBytes bytes
ByteStrings == SeqsUpTo({0, 255}, MaxBytes)
Identifiers == {<<>>, <<7>>}
\* uint32 values: 0, one with every byte different, 2^32 - 1
Uint32Values == {Nat64(0), U64(258, 772), U64(65535, 65535)}
Suites == {0, 1}

\* the values of the test vectors
TestVectors ==
  [suite : Suites, random : ByteStrings, id : Identifiers,
   epoch : Uint32Values, index : {Nat64(0), U64(32768, 1)}, nodes : 0..MaxNodes]

dh_key(tv) == PublicKeyOf(SuiteKeyType(tv.suite), 3)
sig_key(tv) == PublicKeyOf(SIG_KEY_TYPE, 5)

\* a direct path of tv.nodes nodes, the k-th with k - 1 ciphertexts
direct_path(tv) ==
  [suite |-> tv.suite,
   nodes |-> [k \in 1..tv.nodes |->
                [public_key |-> PublicKeyOf(SuiteKeyType(tv.suite), k),
                 node_secrets |-> [j \in 1..(k - 1) |->
                                     [ephemeral |-> dh_key(tv),
                                      content |-> tv.random]]]]]

\* a tree of tv.nodes + 1 leaves whose second node is blank
ratchet_tree(tv) ==
  [k \in 1..(2 * tv.nodes + 1) |->
     IF k = 2
     THEN Blank
     ELSE [public_key |-> PublicKeyOf(SuiteKeyType(tv.suite), k),
           priv |-> k, secret |-> <<k>>]]

cred(tv) == [identity |-> tv.id, public_key |-> sig_key(tv)]

user_init_key_c(tv) ==
  [UserInitKey_add_init_key(UserInitKey_default, tv.suite, dh_key(tv))
     EXCEPT !.user_init_key_id = tv.id,
            !.credential = cred(tv),
            !.signature = tv.random]

\* WelcomeInfo(group_id, epoch, roster, tree, transcript_hash, init_secret)
welcome_info_c(tv) ==
  [suite |-> tv.suite, version |-> mls10Version, group_id |-> tv.id,
   epoch |-> tv.epoch, roster |-> <<cred(tv), Blank>>,
   tree |-> ratchet_tree(tv), transcript_hash |-> tv.random,
   init_secret |-> tv.random]

welcome_c(tv) ==
  [user_init_key_id |-> tv.id, cipher_suite |-> tv.suite,
   encrypted_welcome_info |-> [ephemeral |-> dh_key(tv), content |-> tv.random]]

add_c(tv) ==
  Handshake_new(tv.epoch,
                GroupOperation_from_Add(
                  Add_new(tv.index, user_init_key_c(tv), tv.random)),
                tv.index, tv.random, tv.random)

update_c(tv) ==
  Handshake_new(tv.epoch,
                GroupOperation_from_Update(Update_from_path(direct_path(tv))),
                tv.index, tv.random, tv.random)

remove_c(tv) ==
  Handshake_new(tv.epoch,
                GroupOperation_from_Remove(Remove_from(tv.index, direct_path(tv))),
                tv.index, tv.random, tv.random)

MessageKinds ==
  {"UserInitKey", "WelcomeInfo", "Welcome", "Add", "Update", "Remove"}

Construct(kind, tv) ==
  CASE kind = "UserInitKey" -> user_init_key_c(tv)
    [] kind = "WelcomeInfo" -> welcome_info_c(tv)
    [] kind = "Welcome"     -> welcome_c(tv)
    [] kind = "Add"         -> add_c(tv)
    [] kind = "Update"      -> update_c(tv)
    [] OTHER                -> remove_c(tv)

\* tls::marshal: the value written to a fresh ostream
marshal(kind, v) ==
  CASE kind = "UserInitKey" -> UserInitKey_write(<<>>, v)
    [] kind = "WelcomeInfo" -> WelcomeInfo_write(<<>>, v)
    [] kind = "Welcome"     -> Welcome_write(<<>>, v)
    [] OTHER                -> Handshake_write(<<>>, v)

\* tls::unmarshal: an istream over the bytes, read into an object built as
\* the test builds it (for the suite of the test case)
unmarshal(kind, suite, bytes) ==
  CASE kind = "UserInitKey" -> UserInitKey_read(istream_new(bytes))
    [] kind = "WelcomeInfo" -> WelcomeInfo_read(istream_new(bytes), suite)
    [] kind = "Welcome"     -> Welcome_read(istream_new(bytes))
    [] OTHER -> Handshake_read(istream_new(bytes), Handshake_for_suite(suite, 0))

\* operator== of the message type
MessageEq(kind, a, b) ==
  CASE kind = "UserInitKey" -> UserInitKey_eq(a, b)
    [] kind = "WelcomeInfo" -> WelcomeInfo_eq(a, b)
    [] kind = "Welcome"     -> Welcome_eq(a, b)
    [] OTHER                -> Handshake_eq(a, b)

NoMessage == [kind |-> "none"]

\* the crypto layer at rest
CryptoIdle ==
  /\ dh_key_type = "P256"
  /\ hpke = [phase |-> "idle"]
  /\ signing = [phase |-> "idle"]
  /\ kdf = [phase |-> "idle"]

CodecIdle ==
  /\ cphase = "idle"
  /\ constructed = NoMessage
  /\ wire = <<>>
  /\ unmarshaled = Failed
  /\ rewire = <<>>

\* auto marshaled = tls::marshal(constructed)
Marshal ==
  /\ cphase = "idle"
  /\ \E kind \in MessageKinds, tv \in TestVectors :
       /\ constructed' = [kind |-> kind, suite |-> tv.suite, val |-> Construct(kind, tv)]
       /\ wire' = marshal(kind, Construct(kind, tv))
  /\ cphase' = "marshaled"
  /\ UNCHANGED <<unmarshaled, rewire>>
  /\ UNCHANGED notCodec

\* tls::unmarshal(vector, unmarshaled)
Unmarshal ==
  /\ cphase = "marshaled"
  /\ unmarshaled' = unmarshal(constructed.kind, constructed.suite, wire)
  /\ cphase' = "unmarshaled"
  /\ UNCHANGED <<constructed, wire, rewire>>
  /\ UNCHANGED notCodec

\* tls::marshal(unmarshaled)
Remarshal ==
  /\ cphase = "unmarshaled"
  /\ unmarshaled.ok
  /\ rewire' = marshal(constructed.kind, unmarshaled.val)
  /\ cphase' = "remarshaled"
  /\ UNCHANGED <<constructed, wire, unmarshaled>>
  /\ UNCHANGED notCodec

CodecNext == Marshal \/ Unmarshal \/ Remarshal

CodecInit == CodecIdle /\ CryptoIdle /\ TreeIdle /\ GroupIdle /\ UnitsIdle

SpecCodec == CodecInit /\ [][CodecNext]_vars

\* C1: for every message type and every valid value v,
\* unmarshal(marshal(v)) == v and marshal(unmarshal(marshal(v))) == marshal(v)
C1_WireRoundTrip ==
  /\ cphase \in {"unmarshaled", "remarshaled"} =>
       /\ unmarshaled.ok
       /\ MessageEq(constructed.kind, unmarshaled.val, constructed.val)
  /\ cphase = "remarshaled" => rewire = wire

\* a Remove handshake with a path of two nodes, a ciphertext and an epoch
\* above 2^31 has gone through the whole round trip
C1_Witness ==
  /\ cphase = "remarshaled"
  /\ constructed.kind = "Remove"
  /\ Len(constructed.val.operation.remove.path.nodes) = 2
  /\ constructed.val.prior_epoch = U64(65535, 65535)
  /\ Len(constructed.val.signature) = 2

\* the suites a Handshake carries: its own, its operation's, and those of
\* the nested Update, Remove and their DirectPaths
HandshakeSuites(h) ==
  {h.suite, h.operation.suite,
   h.operation.update.suite, h.operation.update.path.suite,
   h.operation.remove.suite, h.operation.remove.path.suite}

\* C16: every Handshake built for a group of suite S, for each of Add,
\* Update and Remove, carries S in the Handshake, in its GroupOperation and
\* in every nested Update/Remove/DirectPath; no constructor substitutes a
\* different (default) suite
C16_OneSuite ==
  /\ cphase # "idle"
  /\ constructed.kind \in {"Add", "Update", "Remove"}
  => HandshakeSuites(constructed.val) = {constructed.suite}

-----------------------------------------------------------------------------
(* Digests, HMAC and HKDF.  SHA-256 is stood for by a polynomial hash     *)
(* modulo a prime, squeezed to SHA256_DIGEST_LENGTH bytes of which the    *)
(* first two hold the whole hash value: what is computed from a digest    *)
(* (truncation, padding, comparison) is computed on bytes.                *)

SHA256_DIGEST_LENGTH == 32

\* the result of a call that can throw
Thrown == [ok |-> FALSE, val |-> <<>>]
Returned(v) == [ok |-> TRUE, val |-> v]

\* the polynomial hash of data[lo..hi] modulo the prime q, by halves
RECURSIVE PolyHash(_, _, _, _)
PolyHash(data, lo, hi, q) ==
  IF lo > hi
  THEN 0
  ELSE IF lo = hi
       THEN (data[lo] + 1) % q
       ELSE (PolyHash(data, lo, (lo + hi) \div 2, q)
               * ModExp(31, hi - ((lo + hi) \div 2), q)
             + PolyHash(data, ((lo + hi) \div 2) + 1, hi, q)) % q

\* the hash state h after data has been written to it
AbsorbMod(h, data, q) ==
  (h * ModExp(31, Len(data), q) + PolyHash(data, 1, Len(data), q)) % q

\* SHA256_Update
Absorb(h, data) == AbsorbMod(h, data, 32749)

\* SHA256_Final
Squeeze(h) ==
  [i \in 1..SHA256_DIGEST_LENGTH |->
     IF i = 1 THEN h \div 256
     ELSE IF i = 2 THEN h % 256
     ELSE ((h + i) * ((h % 251) + i)) % 256]

\* SHA256Digest(prefix).write(data).digest()
SHA256Digest(prefix, data) == Squeeze(Absorb(Absorb(7, <<prefix>>), data))

\* hmac_sha256: always SHA256_DIGEST_LENGTH bytes
hmac_sha256(key, data) ==
  Squeeze(Absorb(Absorb(Absorb(11, key), <<Len(key) % 256>>), data))

\* hkdf_extract
hkdf_extract(salt, ikm) == hmac_sha256(salt, ikm)

\* std::vector::resize: cut, or filled up with zero bytes
resize(v, size) == [i \in 1..size |-> IF i <= Len(v) THEN v[i] ELSE 0]

\* zero_bytes
zero_bytes(size) == [i \in 1..size |-> 0]

\* a variant of hkdf_expand that leaves out the block counter 0x01
hkdf_expand_no_counter(secret, label, size) ==
  Returned(resize(hmac_sha256(secret, label), size))

\* hkdf_expand: label is tls::marshal(info); nothing is checked, the MAC is
\* resized to the size that was asked for
hkdf_expand(secret, label, size) ==
  Returned(resize(hmac_sha256(secret, Append(label, 1)), size))

-----------------------------------------------------------------------------
(* AES-GCM.  The cipher is stood for by a keystream added byte by byte    *)
(* and a tag that is a digest of key, nonce, AAD and ciphertext.          *)

key_size_128 == 16
key_size_192 == 24
key_size_256 == 32
nonce_size == 12
tag_size == 16

\* a variant of the constructor that takes a nonce of any size
AESGCM_new_any_nonce(key, nonce) ==
  IF Len(key) \in {key_size_128, key_size_192, key_size_256}
  THEN Returned([key |-> key, nonce |-> nonce, aad |-> <<>>])
  ELSE Thrown

\* what a call has thrown
NoException == [kind |-> "none", what |-> ""]
Exception(kind, what) == [kind |-> kind, what |-> what]

\* AESGCM(key, nonce): the exception of the constructor; the key size is
\* looked at first (the default arm of the switch), then the nonce size
AESGCM_thrown(key, nonce) ==
  IF Len(key) \notin {key_size_128, key_size_192, key_size_256}
  THEN Exception("InvalidParameterError", "Invalid AES key size")
  ELSE IF Len(nonce) # nonce_size
       THEN Exception("InvalidParameterError", "Invalid AES-GCM nonce size")
       ELSE NoException

\* AESGCM(key, nonce): throws on a key or a nonce of another size
AESGCM_new(key, nonce) ==
  IF Len(key) \in {key_size_128, key_size_192, key_size_256}
     /\ Len(nonce) = nonce_size
  THEN Returned([key |-> key, nonce |-> nonce, aad |-> <<>>])
  ELSE Thrown

\* AESGCM::set_aad
AESGCM_set_aad(gcm, aad) == [gcm EXCEPT !.aad = aad]

\* the cipher's state after EVP_EncryptInit / EVP_DecryptInit
CipherInit(gcm) == Absorb(Absorb(13, gcm.key), gcm.nonce)

KeyStream(h, i) == ((h + i) * ((h % 251) + i)) % 256

\* the GCM tag over the AAD and the ciphertext body
GcmTag(h, aad, body) ==
  resize(Squeeze(Absorb(Absorb(Absorb(h, aad), <<Len(aad) % 256>>), body)),
         tag_size)

EncryptUpdate(h, pt) == [i \in 1..Len(pt) |-> (pt[i] + KeyStream(h, i)) % 256]
DecryptUpdate(h, body) ==
  [i \in 1..Len(body) |-> (body[i] + 256 - KeyStream(h, i)) % 256]

\* the ciphertext for cipher state h: body, then tag
Sealed(h, aad, body) == body \o GcmTag(h, aad, body)

\* AESGCM::encrypt: pt.size() + tag_size bytes
AESGCM_encrypt(gcm, pt) ==
  Sealed(CipherInit(gcm), gcm.aad, EncryptUpdate(CipherInit(gcm), pt))

\* the plaintext when EVP_DecryptFinal accepts the tag
Opened(h, aad, body, tag) ==
  IF GcmTag(h, aad, body) = tag THEN Returned(DecryptUpdate(h, body)) ELSE Thrown

\* a variant of decrypt that does not look at the tag
decrypt_unchecked(gcm, ct) ==
  IF Len(ct) < tag_size
  THEN Thrown
  ELSE Returned(DecryptUpdate(CipherInit(gcm), SubSeq(ct, 1, Len(ct) - tag_size)))

\* AESGCM::decrypt: throws on a ciphertext shorter than the tag and when the
\* tag does not verify
AESGCM_decrypt(gcm, ct) ==
  IF Len(ct) < tag_size
  THEN Thrown
  ELSE Opened(CipherInit(gcm), gcm.aad,
              SubSeq(ct, 1, Len(ct) - tag_size),
              SubSeq(ct, Len(ct) - tag_size + 1, Len(ct)))

-----------------------------------------------------------------------------
(* Private keys, DH and signatures *)

\* AESGCM::decrypt: the exception thrown; a rejected tag is the failure of
\* EVP_DecryptFinal
AESGCM_decrypt_thrown(gcm, ct) ==
  IF Len(ct) < tag_size
  THEN Exception("InvalidParameterError",
                 "AES-GCM ciphertext smaller than tag size")
  ELSE IF AESGCM_decrypt(gcm, ct).ok
       THEN NoException
       ELSE Exception("OpenSSLError", "EVP_DecryptFinal")

\* the domain-separation byte of SHA256Digest(dh_hash_prefix)
dh_hash_prefix == 0

\* random_bytes: `entropy` stands for what RAND_bytes returns
random_bytes(size, entropy) == [i \in 1..size |-> (entropy * 37 + i * 11) % 256]

\* BN_bin2bn(digest): the digest as a private scalar of the curve
ScalarOf(kt, digest) == 1 + ((digest[1] * 256 + digest[2]) % (GroupOrder(kt) - 1))

\* the EVP_PKEY of the private scalar d, with its public point
KeyPair(kt, d) ==
  [kt |-> kt,
   key |-> [type |-> IF kt = "P256" THEN "EC" ELSE "X25519",
            pub |-> BasePoint(kt, d),
            form |-> IF kt = "P256" THEN 4 ELSE 0,
            priv |-> d]]

\* X25519Key::set_secret / P256Key::set_secret: the key of SHA-256(prefix, data)
OpenSSLKey_set_secret(k, data) ==
  KeyPair(k.kt, ScalarOf(k.kt, SHA256Digest(dh_hash_prefix, data)))

\* X25519Key::generate sets the secret to random bytes; P256Key::generate
\* takes a random scalar (EC_KEY_generate_key)
OpenSSLKey_generate(k, entropy) ==
  IF k.kt = "X25519"
  THEN OpenSSLKey_set_secret(k, random_bytes(32, entropy))
  ELSE KeyPair(k.kt, 1 + (entropy % (GroupOrder(k.kt) - 1)))

\* dup_public: a new key of the public half; a new EC_KEY has the uncompressed
\* conversion form
OpenSSLKey_dup_public(k) ==
  [k EXCEPT !.key.priv = 0, !.key.form = IF k.kt = "P256" THEN 4 ELSE 0]

\* OpenSSLKey::derive: the raw shared secret; throws when either key is
\* missing, when this key has no private half or when the peer is of
\* another type
OpenSSLKey_derive(k, pub) ==
  IF \/ k.key = NullPKEY \/ pub.key = NullPKEY
     \/ k.key.priv = 0 \/ k.key.type # pub.key.type
  THEN Thrown
  ELSE Returned(<<ScalarMult(k.kt, k.key.priv, pub.key.pub)>>)

\* DHPrivateKey: _key and the cached _pub
DHPrivateKey_of(key) == [key |-> key, pub |-> OpenSSLKey_dup_public(key)]

\* DHPrivateKey::generate
DHPrivateKey_generate(kt, entropy) ==
  DHPrivateKey_of(OpenSSLKey_generate(OpenSSLKey_create(kt), entropy))

\* DHPrivateKey::derive(seed)
DHPrivateKey_derive(kt, seed) ==
  DHPrivateKey_of(OpenSSLKey_set_secret(OpenSSLKey_create(kt), seed))

\* DHPrivateKey::derive(pub)
DHPrivateKey_dh(priv, pub) == OpenSSLKey_derive(priv.key, pub)

\* the digest of a signed message as an exponent, and the signature
\* equation: ECDSA is stood for by a Schnorr signature <<R, s>> in the
\* P-256 group, R = k * G for a random k and s = k + e * d
Challenge(kt, R, msg) ==
  AbsorbMod(AbsorbMod(1, <<R>>, GroupOrder(kt)), msg, GroupOrder(kt))

\* the signature of msg under the private scalar d with the nonce n
EcdsaSign(kt, d, n, msg) ==
  <<BasePoint(kt, n),
    (n + Challenge(kt, BasePoint(kt, n), msg) * d) % GroupOrder(kt)>>

\* OpenSSLKey::sign: throws without a private key; `entropy` is the
\* signature's random nonce
OpenSSLKey_sign(k, msg, entropy) ==
  IF k.key = NullPKEY \/ k.key.priv = 0
  THEN Thrown
  ELSE Returned(EcdsaSign(k.kt, k.key.priv,
                          1 + (entropy % (GroupOrder(k.kt) - 1)), msg))

\* EVP_DigestVerify(...) == 1
DigestVerify(k, msg, sig) ==
  /\ Len(sig) = 2
  /\ sig[1] \in 1..(FieldPrime(k.kt) - 1)
  /\ sig[2] \in 0..(GroupOrder(k.kt) - 1)
  /\ BasePoint(k.kt, sig[2])
       = (sig[1] * ScalarMult(k.kt, Challenge(k.kt, sig[1], msg), k.key.pub))
           % FieldPrime(k.kt)

\* a variant of verify that does not look at the message
verify_any_message(k, msg, sig) ==
  IF k.key = NullPKEY THEN Thrown ELSE Returned(Len(sig) = 2)

\* OpenSSLKey::verify: throws only when the context cannot be set up (no
\* key); an invalid signature is `false`
OpenSSLKey_verify(k, msg, sig) ==
  IF k.key = NullPKEY THEN Thrown ELSE Returned(DigestVerify(k, msg, sig))

-----------------------------------------------------------------------------
(* The group state on the wire, labelled key derivation and HPKE *)

\* State(): the state HKDFLabel holds when none is given
State_default ==
  [group_id |-> <<>>, epoch |-> Nat64(0), roster |-> <<>>,
   tree |-> RatchetTree_new,
   transcript_hash |-> <<>>, init_secret |-> <<>>]

\* GroupState on the wire: group_id, epoch, roster, tree, transcript_hash
State_write(buffer, s) ==
  write_opaque(
    RatchetTree_write(
      Roster_write(
        ostream_write_uint(write_opaque(buffer, s.group_id, 1), s.epoch, 4),
        s.roster),
      s.tree.nodes),
    s.transcript_hash, 1)

\* operator<<(tls::ostream&, const HKDFLabel&): length, label, group_state
HKDFLabel_write(buffer, label) ==
  State_write(
    write_opaque(ostream_write_uint(buffer, Nat64(label.length), 2),
                 label.label, 1),
    label.group_state)

\* "mls10 " and the labels of the code, as bytes
mls10_prefix == <<109, 108, 115, 49, 48, 32>>
ecies_key_label ==
  <<109, 108, 115, 49, 48, 32, 101, 99, 105, 101, 115, 32, 107, 101, 121>>
ecies_nonce_label ==
  <<109, 108, 115, 49, 48, 32, 101, 99, 105, 101, 115, 32, 110, 111, 110, 99, 101>>

\* derive_secret: HKDFLabel{ uint16_t(size), "mls10 " + label, state }, the
\* size itself is passed on to hkdf_expand
derive_secret(secret, label, state, size) ==
  hkdf_expand(secret,
              HKDFLabel_write(<<>>, [length |-> size % 65536,
                                     label |-> mls10_prefix \o label,
                                     group_state |-> state]),
              size)

\* derive_ecies_secrets: key and nonce from the shared secret, the labels
\* built without a group state
derive_ecies_secrets(shared_secret) ==
  [key |-> hkdf_expand(shared_secret,
                       HKDFLabel_write(<<>>, [length |-> key_size_128,
                                              label |-> ecies_key_label,
                                              group_state |-> State_default]),
                       key_size_128).val,
   nonce |-> hkdf_expand(shared_secret,
                         HKDFLabel_write(<<>>, [length |-> nonce_size,
                                                label |-> ecies_nonce_label,
                                                group_state |-> State_default]),
                         nonce_size).val]

\* AESGCM gcm(key, nonce); gcm.encrypt(plaintext)
ecies_seal(secrets, plaintext) ==
  IF AESGCM_new(secrets.key, secrets.nonce).ok
  THEN Returned(AESGCM_encrypt(AESGCM_new(secrets.key, secrets.nonce).val,
                               plaintext))
  ELSE Thrown

\* AESGCM gcm(key, nonce); gcm.decrypt(content)
ecies_open(secrets, content) ==
  IF AESGCM_new(secrets.key, secrets.nonce).ok
  THEN AESGCM_decrypt(AESGCM_new(secrets.key, secrets.nonce).val, content)
  ELSE Thrown

\* the ciphertext once the shared secret and the content are there
ECIESCiphertext_of(ephemeral, content) ==
  IF content.ok
  THEN Returned([ephemeral |-> ephemeral.pub, content |-> content.val])
  ELSE Thrown

\* the rest of encrypt, for the ephemeral key that was generated
encrypt_with(ephemeral, shared_secret, plaintext) ==
  IF shared_secret.ok
  THEN ECIESCiphertext_of(
         ephemeral,
         ecies_seal(derive_ecies_secrets(shared_secret.val), plaintext))
  ELSE Thrown

\* a variant of encrypt that sends the recipient's key in place of the
\* ephemeral public key
encrypt_recipient_key(pub, plaintext, entropy) ==
  encrypt_with([pub |-> pub],
               DHPrivateKey_dh(DHPrivateKey_generate(pub.kt, entropy), pub),
               plaintext)

\* DHPublicKey::encrypt: a fresh ephemeral key pair, the shared secret with
\* this key, AES-128-GCM under the derived key and nonce
DHPublicKey_encrypt(pub, plaintext, entropy) ==
  encrypt_with(DHPrivateKey_generate(pub.kt, entropy),
               DHPrivateKey_dh(DHPrivateKey_generate(pub.kt, entropy), pub),
               plaintext)

\* the rest of decrypt
decrypt_with(shared_secret, content) ==
  IF shared_secret.ok
  THEN ecies_open(derive_ecies_secrets(shared_secret.val), content)
  ELSE Thrown

\* DHPrivateKey::decrypt: the shared secret with the ephemeral key, then
\* AES-128-GCM; throws when the tag does not verify
DHPrivateKey_decrypt(priv, ciphertext) ==
  decrypt_with(DHPrivateKey_dh(priv, ciphertext.ephemeral), ciphertext.content)

-----------------------------------------------------------------------------
(* The crypto layer as a state machine: one HPKE exchange, one            *)
(* UserInitKey signed, changed and verified, or one key derivation.       *)

\* what the random source returns
Entropy == {1, 2, 200}

\* plaintexts: short byte strings and one path secret
Plaintexts == ByteStrings \cup {random_bytes(32, 5)}

\* UserInitKey::sign, once the credential is set and the signature made
UserInitKey_signed(key, signature) ==
  IF signature.ok THEN Returned([key EXCEPT !.signature = signature.val]) ELSE Thrown

\* UserInitKey::sign(identity_priv, credential): the credential is stored
\* and the signature is made over to_be_signed()
UserInitKey_sign(key, identity_priv, credential, entropy) ==
  UserInitKey_signed(
    [key EXCEPT !.credential = credential],
    OpenSSLKey_sign(identity_priv,
                    UserInitKey_to_be_signed([key EXCEPT !.credential = credential]),
                    entropy))

\* UserInitKey::verify: the credential's key verifies the signature over
\* to_be_signed()
UserInitKey_verify(key) ==
  OpenSSLKey_verify(key.credential.public_key, UserInitKey_to_be_signed(key),
                    key.signature)

\* Credential::basic(identity, public_key)
Credential_basic(identity, public_key) ==
  [identity |-> identity, public_key |-> public_key]

\* the identity keys and the init keys of the runs
SignatureScalars == {3, 50}
InitKeySets == {<<0>>, <<0, 1>>}

\* a UserInitKey with an init key for each suite of `suites`
RECURSIVE user_init_key_for(_, _, _)
user_init_key_for(key, suites, k) ==
  IF k > Len(suites)
  THEN key
  ELSE user_init_key_for(
         UserInitKey_add_init_key(
           key, suites[k],
           DHPrivateKey_derive(SuiteKeyType(suites[k]), random_bytes(32, k)).pub),
         suites, k + 1)

\* what a change of one byte adds to it
Deltas == {1, 128, 255}

\* the places of a UserInitKey's to-be-signed region where a byte is
\* changed.  The octets of the credential's key are left out: in a group of
\* 113 elements another key accepts a given signature once in 113 times,
\* which says nothing of P-256.
Regions == {"id", "versions", "suites", "init_keys", "identity"}

\* the UserInitKey with one byte of one region changed
Changed(key, region, delta) ==
  CASE region = "id" ->
         [key EXCEPT !.user_init_key_id[1] = (@ + delta) % 256]
    [] region = "versions" ->
         [key EXCEPT !.supported_versions[1] = (@ + delta) % 256]
    [] region = "suites" ->
         [key EXCEPT !.cipher_suites[Len(key.cipher_suites)] = (@ + delta) % 256]
    [] region = "init_keys" ->
         [key EXCEPT !.init_keys[Len(key.init_keys)][1] = (@ + delta) % 256]
    [] region = "identity" ->
         [key EXCEPT !.credential.identity[1] = (@ + delta) % 256]

\* the build's DH_KEY_TYPE; the other define is commented out in the code
CryptoInit ==
  /\ dh_key_type \in KeyTypes
  /\ hpke = [phase |-> "idle"]
  /\ signing = [phase |-> "idle"]
  /\ kdf = [phase |-> "idle"]
  /\ CodecIdle
  /\ TreeIdle
  /\ GroupIdle
  /\ UnitsIdle

CryptoAtRest ==
  /\ hpke.phase = "idle" /\ signing.phase = "idle" /\ kdf.phase = "idle"
  /\ aead.phase = "idle"

\* auto ct = sk.public_key().encrypt(pt)
HpkeEncrypt ==
  /\ CryptoAtRest
  /\ \E seed \in Entropy, pt \in Plaintexts, entropy \in Entropy :
       hpke' = [phase |-> "sealed",
                sk |-> DHPrivateKey_derive(dh_key_type, random_bytes(32, seed)),
                pt |-> pt,
                ct |-> DHPublicKey_encrypt(
                         DHPrivateKey_derive(dh_key_type, random_bytes(32, seed)).pub,
                         pt, entropy)]
  /\ UNCHANGED <<dh_key_type, signing, kdf>>
  /\ UNCHANGED notCrypto

\* auto out = sk.decrypt(ct)
HpkeDecrypt ==
  /\ hpke.phase = "sealed"
  /\ hpke.ct.ok
  /\ hpke' = [phase |-> "opened", sk |-> hpke.sk, pt |-> hpke.pt, ct |-> hpke.ct,
                out |-> DHPrivateKey_decrypt(hpke.sk, hpke.ct.val)]
  /\ UNCHANGED <<dh_key_type, signing, kdf>>
  /\ UNCHANGED notCrypto

\* UserInitKey key; key.add_init_key(...); key.sign(sk, cred)
UikSign ==
  /\ CryptoAtRest
  /\ \E d \in SignatureScalars, suites \in InitKeySets, entropy \in Entropy,
        id \in {<<7>>, <<0, 255>>} :
       signing' =
         [phase |-> "signed", changed |-> FALSE,
          key |-> UserInitKey_sign(
                    [user_init_key_for(UserInitKey_default, suites, 1)
                       EXCEPT !.user_init_key_id = id],
                    KeyPair(SIG_KEY_TYPE, d),
                    Credential_basic(id, OpenSSLKey_dup_public(KeyPair(SIG_KEY_TYPE, d))),
                    entropy)]
  /\ UNCHANGED <<dh_key_type, hpke, kdf>>
  /\ UNCHANGED notCrypto

\* one byte of the to-be-signed region is changed
UikChange ==
  /\ signing.phase = "signed"
  /\ signing.key.ok
  /\ ~signing.changed
  /\ \E region \in Regions, delta \in Deltas :
       /\ Changed(signing.key.val, region, delta) # signing.key.val
       /\ signing' = [signing EXCEPT !.changed = TRUE,
                                     !.key.val = Changed(@, region, delta)]
  /\ UNCHANGED <<dh_key_type, hpke, kdf>>
  /\ UNCHANGED notCrypto

\* key.verify()
UikVerify ==
  /\ signing.phase = "signed"
  /\ signing.key.ok
  /\ signing' = [phase |-> "verified", changed |-> signing.changed,
                 key |-> signing.key, result |-> UserInitKey_verify(signing.key.val)]
  /\ UNCHANGED <<dh_key_type, hpke, kdf>>
  /\ UNCHANGED notCrypto

\* the sizes asked of the key derivation
ExpandSizes == {0, nonce_size, key_size_128, SHA256_DIGEST_LENGTH,
                SHA256_DIGEST_LENGTH + 1, 2 * SHA256_DIGEST_LENGTH}
ExpandLabels == {<<110, 111, 100, 101>>, <<105, 110, 105, 116>>}

\* the group states given to derive_secret: State(), and a state with an
\* id, an epoch and a transcript hash
ExpandStates ==
  {State_default,
   [State_default EXCEPT !.group_id = <<7>>, !.epoch = U64(1, 2),
                         !.transcript_hash = <<9, 8>>]}

\* hkdf_expand(secret, info, size), as derive_ecies_secrets calls it
HkdfExpand ==
  /\ CryptoAtRest
  /\ \E seed \in Entropy, label \in ExpandLabels, size \in ExpandSizes :
       kdf' = [phase |-> "expanded", fn |-> "hkdf_expand", size |-> size,
               out |-> hkdf_expand(random_bytes(32, seed), label, size)]
  /\ UNCHANGED <<dh_key_type, hpke, signing>>
  /\ UNCHANGED notCrypto

\* derive_secret(secret, label, state, size)
DeriveSecret ==
  /\ CryptoAtRest
  /\ \E seed \in Entropy, label \in ExpandLabels, state \in ExpandStates,
        size \in ExpandSizes :
       kdf' = [phase |-> "expanded", fn |-> "derive_secret", size |-> size,
               secret |-> random_bytes(32, seed), label |-> label,
               state |-> state,
               out |-> derive_secret(random_bytes(32, seed), label, state, size)]
  /\ UNCHANGED <<dh_key_type, hpke, signing>>
  /\ UNCHANGED notCrypto

\* the sizes of the keys and nonces given to AESGCM
KeySizes == {0, 15, 16, 17, 24, 31, 32, 33}
NonceSizes == {0, 11, 12, 13}

\* AESGCM gcm(key, nonce)
AesgcmNew ==
  /\ CryptoAtRest
  /\ \E ks \in KeySizes, ns \in NonceSizes, entropy \in Entropy :
       aead' = [phase |-> "constructed",
                key |-> random_bytes(ks, entropy),
                nonce |-> random_bytes(ns, entropy + 1),
                gcm |-> AESGCM_new(random_bytes(ks, entropy),
                                   random_bytes(ns, entropy + 1)),
                thrown |-> AESGCM_thrown(random_bytes(ks, entropy),
                                         random_bytes(ns, entropy + 1))]
  /\ UNCHANGED notAead

\* the AADs, the plaintexts and what is done to a ciphertext on its way
Aads == {<<>>, <<1>>, <<2>>, <<1, 2>>}
SealedTexts == {<<>>, <<5>>, <<1, 2, 3>>}
Flips == {1, 128}
Flipped(ct, i, d) == [ct EXCEPT ![i] = (@ + d) % 256]
Arrivals(ct) ==
  {ct, Append(ct, 0)}
    \cup {Flipped(ct, i, d) : i \in 1..Len(ct), d \in Flips}
    \cup {SubSeq(ct, 1, n) : n \in {0, tag_size - 1, Len(ct) - 1}}
    \cup {SubSeq(ct, 2, Len(ct))}

\* gcm.set_aad(aad), before or after the encryption
AesgcmSetAad ==
  /\ aead.phase \in {"constructed", "sealed"}
  /\ aead.gcm.ok
  /\ \E aad \in Aads :
       aead' = [aead EXCEPT !.gcm.val = AESGCM_set_aad(@, aad)]
  /\ UNCHANGED notAead

\* ct = gcm.encrypt(pt)
AesgcmEncrypt ==
  /\ aead.phase = "constructed"
  /\ aead.gcm.ok
  /\ \E pt \in SealedTexts :
       aead' = [phase |-> "sealed", key |-> aead.key, nonce |-> aead.nonce,
                gcm |-> aead.gcm, thrown |-> aead.thrown,
                used |-> aead.gcm.val.aad, pt |-> pt,
                ct |-> AESGCM_encrypt(aead.gcm.val, pt)]
  /\ UNCHANGED notAead

\* gcm.decrypt(given), under the same key and nonce
AesgcmDecrypt ==
  /\ aead.phase = "sealed"
  /\ \E given \in Arrivals(aead.ct) :
       aead' = [phase |-> "opened", key |-> aead.key, nonce |-> aead.nonce,
                gcm |-> aead.gcm,
                thrown |-> AESGCM_decrypt_thrown(aead.gcm.val, given),
                used |-> aead.used, pt |-> aead.pt, ct |-> aead.ct,
                given |-> given,
                out |-> AESGCM_decrypt(aead.gcm.val, given)]
  /\ UNCHANGED notAead

CryptoNext ==
  \/ HpkeEncrypt \/ HpkeDecrypt
  \/ UikSign \/ UikChange \/ UikVerify
  \/ HkdfExpand \/ DeriveSecret
  \/ AesgcmNew \/ AesgcmSetAad \/ AesgcmEncrypt \/ AesgcmDecrypt

SpecCrypto == CryptoInit /\ [][CryptoNext]_vars

\* C6: for every DH key pair (sk, pk) and every plaintext pt,
\* sk.decrypt(pk.encrypt(pt)) returns pt, under the P-256 and under the
\* X25519 build
C6_HpkeRoundTrip ==
  /\ hpke.phase = "sealed" => hpke.ct.ok
  /\ hpke.phase = "opened" => hpke.out.ok /\ hpke.out.val = hpke.pt

C6_Witness ==
  /\ hpke.phase = "opened"
  /\ dh_key_type = "X25519"
  /\ Len(hpke.pt) = 32
  /\ Len(hpke.ct.val.content) = 32 + tag_size
  /\ hpke.ct.val.content # hpke.pt \o SubSeq(hpke.ct.val.content, 33, 48)

C10_ExpandRejectsLong ==
  kdf.phase = "expanded" /\ kdf.size > SHA256_DIGEST_LENGTH => ~kdf.out.ok

\* C11: the AESGCM constructor succeeds exactly when the key has 16, 24 or
\* 32 bytes and the nonce has 12; otherwise it throws InvalidParameterError
\* and no context exists
C11_AesgcmConstruction ==
  aead.phase = "constructed" =>
    /\ aead.gcm.ok <=> (Len(aead.key) \in {16, 24, 32} /\ Len(aead.nonce) = 12)
    /\ aead.gcm.ok =>
         /\ aead.thrown = NoException
         /\ aead.gcm.val.key = aead.key
         /\ aead.gcm.val.nonce = aead.nonce
    /\ ~aead.gcm.ok =>
         /\ aead.thrown.kind = "InvalidParameterError"
         /\ aead.gcm = Thrown

\* a key of 32 bytes with a nonce of 13 has been turned down
C11_Witness ==
  /\ aead.phase = "constructed"
  /\ Len(aead.key) = 32
  /\ Len(aead.nonce) = 13
  /\ ~aead.gcm.ok
  /\ aead.thrown.what = "Invalid AES-GCM nonce size"

\* C21: decrypt never returns plaintext for unauthenticated input: if the
\* ciphertext body, the 16-byte tag, or the AAD in force differs from what
\* encrypt used under the same key and nonce, decrypt raises an error; a
\* ciphertext shorter than the tag raises InvalidParameterError
C21_DecryptAuthenticates ==
  aead.phase = "opened" =>
    /\ (aead.given # aead.ct \/ aead.gcm.val.aad # aead.used) =>
         /\ ~aead.out.ok
         /\ aead.thrown # NoException
    /\ Len(aead.given) < tag_size =>
         /\ ~aead.out.ok
         /\ aead.thrown.kind = "InvalidParameterError"

\* a ciphertext of three bytes and a tag, sealed under the AAD <<1>>, came
\* in with one bit of its body changed and was rejected by the tag
C21_Witness ==
  /\ aead.phase = "opened"
  /\ Len(aead.pt) = 3
  /\ aead.used = <<1>>
  /\ aead.gcm.val.aad = <<1>>
  /\ Len(aead.given) = Len(aead.ct)
  /\ aead.given[1] # aead.ct[1]
  /\ ~aead.out.ok
  /\ aead.thrown.kind = "OpenSSLError"

\* HkdfLabel{uint16 L, "mls10 " + label, state} on the wire, written out
\* byte by byte: L on two bytes, the length of the label on one, the label,
\* the group state
HkdfLabelBytes(size, label, state) ==
  <<size \div 256, size % 256>>
    \o <<Len(mls10_prefix) + Len(label)>> \o mls10_prefix \o label
    \o State_write(<<>>, state)

-----------------------------------------------------------------------------
(* The ratchet tree (section 4.F of the design).  A tree of N leaf slots,  *)
(* N the next power of two at or above the member count, is an array of    *)
(* 2N - 1 nodes; node k of the design is nodes[k + 1] here.  Leaf i is     *)
(* node 2i.                                                                *)

RECURSIVE Pow2(_)
Pow2(n) == IF n = 0 THEN 1 ELSE 2 * Pow2(n - 1)

\* level(k): the number of trailing one bits of k
RECURSIVE level(_)
level(k) == IF k % 2 = 0 THEN 0 ELSE 1 + level(k \div 2)

\* the number of leaves of a tree of w nodes
leaf_count(w) == (w + 1) \div 2

\* the largest 2^e - 1 with 2^e <= w, from 2^e - 1 = at upward
RECURSIVE root_from(_, _)
root_from(at, w) == IF 2 * at + 2 <= w THEN root_from(2 * at + 1, w) ELSE at

\* the root of a tree of w nodes
root(w) == root_from(0, w)

left(k) == k - Pow2(level(k) - 1)

\* the first node at or to the left below r that is within the w nodes
RECURSIVE within_down(_, _)
within_down(r, w) == IF r >= w THEN within_down(left(r), w) ELSE r

\* right(k): the right child, adjusted at the right boundary of the tree
right(k, w) == within_down(k + Pow2(level(k) - 1), w)

\* the parent in the full tree: bit level(k) + 1 of k tells on which side
\* of its parent k is
parent_step(k) ==
  IF (k \div Pow2(level(k) + 1)) % 2 = 0
  THEN k + Pow2(level(k))
  ELSE k - Pow2(level(k))

RECURSIVE within_up(_, _)
within_up(p, w) == IF p >= w THEN within_up(parent_step(p), w) ELSE p

\* parent(k): adjusted at the right boundary of the tree
parent(k, w) == within_up(parent_step(k), w)

sibling_under(k, p, w) == IF k < p THEN right(p, w) ELSE left(p)

sibling(k, w) == sibling_under(k, parent(k, w), w)

\* direct_path(k): the node, its parent, ... up to the root of w nodes
RECURSIVE direct_path_of(_, _)
direct_path_of(k, w) ==
  IF k = root(w) THEN <<k>> ELSE <<k>> \o direct_path_of(parent(k, w), w)

\* copath(k): the siblings of the nodes of the direct path, bottom-up
RECURSIVE copath(_, _)
copath(k, w) ==
  IF k = root(w) THEN <<>> ELSE <<sibling(k, w)>> \o copath(parent(k, w), w)

\* resolution(k): a non-blank node is its own resolution; a blank leaf has
\* none; a blank internal node has its children's, left before right
RECURSIVE resolution(_, _)
resolution(nodes, k) ==
  IF nodes[k + 1] # Blank
  THEN <<k>>
  ELSE IF level(k) = 0
       THEN <<>>
       ELSE resolution(nodes, left(k)) \o resolution(nodes, right(k, Len(nodes)))

\* the elements of a sequence
Range(s) == {s[i] : i \in 1..Len(s)}

\* "mls10 node"
node_label == <<109, 108, 115, 49, 48, 32, 110, 111, 100, 101>>

\* the path secret of the parent: HKDF-Expand(s, "node", 32)
path_step(secret) == hkdf_expand(secret, node_label, SHA256_DIGEST_LENGTH).val

\* s_0, s_1, ..., n of them
RECURSIVE path_secrets(_, _)
path_secrets(secret, n) ==
  IF n = 0 THEN <<>> ELSE <<secret>> \o path_secrets(path_step(secret), n - 1)

\* the cipher suite whose DH group is the key type
SuiteOf(kt) == IF kt = "P256" THEN 0 ELSE 1

\* a node whose key pair is derived from its path secret
SecretNode(kt, secret) ==
  [public_key |-> DHPrivateKey_derive(kt, secret).pub,
   priv |-> DHPrivateKey_derive(kt, secret).key.key.priv,
   secret |-> secret]

\* a node with the public key of the sender's path and the private key
\* derived from the recovered path secret
MergedNode(kt, public_key, secret) ==
  [public_key |-> public_key,
   priv |-> DHPrivateKey_derive(kt, secret).key.key.priv,
   secret |-> secret]

\* RatchetTree::root_secret
RatchetTree_root_secret(tree) == tree.root_secret

\* the nodes with those at the positions `at` set blank
BlankAt(nodes, at) == [k \in 1..Len(nodes) |-> IF (k - 1) \in at THEN Blank ELSE nodes[k]]

\* a variant of blank_path that blanks the leaf alone
blank_leaf_only(tree, index) == [tree EXCEPT !.nodes = BlankAt(@, {2 * index})]

\* RatchetTree::blank_path: the leaf and its whole direct path
RatchetTree_blank_path(tree, index) ==
  [tree EXCEPT !.nodes = BlankAt(@, Range(direct_path_of(2 * index, Len(@))))]

\* the node array widened to w nodes, the new nodes blank
Widened(nodes, w) == [k \in 1..w |-> IF k <= Len(nodes) THEN nodes[k] ELSE Blank]

\* the leaf set, the internal nodes above it blank
LeafSet(nodes, index, public_key) ==
  [BlankAt(nodes, Range(direct_path_of(2 * index, Len(nodes))))
     EXCEPT ![2 * index + 1] = PublicNode(public_key)]

\* RatchetTree::add_leaf: at a blank leaf, or at index `size`, where the
\* number of leaf slots doubles; the internal nodes from the leaf to the
\* root become blank.  An occupied leaf or an index beyond the size is
\* refused.
RatchetTree_add_leaf(tree, index, public_key) ==
  IF index < leaf_count(Len(tree.nodes))
  THEN IF tree.nodes[2 * index + 1] = Blank
       THEN Returned([tree EXCEPT !.nodes = LeafSet(@, index, public_key)])
       ELSE Thrown
  ELSE IF index = leaf_count(Len(tree.nodes))
       THEN Returned([tree EXCEPT !.nodes =
                        LeafSet(Widened(@, 2 * Len(@) + 1), index, public_key)])
       ELSE Thrown

\* the HPKE encryptions of one path secret to the nodes of a resolution
encrypt_to(nodes, res, secret, entropy) ==
  [j \in 1..Len(res) |->
     DHPublicKey_encrypt(nodes[res[j] + 1].public_key, secret, entropy + j).val]

\* the DirectPath for the path secrets of the sender's direct path: the
\* leaf's key with no ciphertexts, then each ancestor's key with its secret
\* encrypted to the resolution of the co-path node below it
path_of_secrets(nodes, kt, cp, secrets, entropy) ==
  [suite |-> SuiteOf(kt),
   nodes |-> [k \in 1..Len(secrets) |->
                [public_key |-> DHPrivateKey_derive(kt, secrets[k]).pub,
                 node_secrets |->
                   IF k = 1
                   THEN <<>>
                   ELSE encrypt_to(nodes, resolution(nodes, cp[k - 1]),
                                   secrets[k], entropy + 10 * k)]]]

\* RatchetTree::encrypt_path
RatchetTree_encrypt_path(tree, kt, from, leaf_secret, entropy) ==
  path_of_secrets(tree.nodes, kt, copath(2 * from, Len(tree.nodes)),
                  path_secrets(leaf_secret,
                               Len(direct_path_of(2 * from, Len(tree.nodes)))),
                  entropy)

\* the nodes with the sender's own direct path set from its path secrets
own_path(nodes, kt, dp, secrets) ==
  [k \in 1..Len(nodes) |->
     IF (k - 1) \in Range(dp)
     THEN SecretNode(kt, secrets[CHOOSE m \in 1..Len(dp) : dp[m] = k - 1])
     ELSE nodes[k]]

set_path_with(nodes, kt, dp, secrets) ==
  [nodes |-> own_path(nodes, kt, dp, secrets), root_secret |-> secrets[Len(secrets)]]

\* RatchetTree::set_path: the sender's own update
RatchetTree_set_path(tree, kt, from, leaf_secret) ==
  set_path_with(tree.nodes, kt, direct_path_of(2 * from, Len(tree.nodes)),
                path_secrets(leaf_secret,
                             Len(direct_path_of(2 * from, Len(tree.nodes)))))

\* the place on the sender's direct path of the lowest node that is also
\* on the receiver's: their common ancestor
common_at(dp_from, dp_self) ==
  CHOOSE k \in 1..Len(dp_from) :
    /\ dp_from[k] \in Range(dp_self)
    /\ \A m \in 1..(k - 1) : dp_from[m] \notin Range(dp_self)

\* the places in a resolution of the nodes on the receiver's direct path
\* whose private key the receiver holds
held(nodes, res, dp_self) ==
  {j \in 1..Len(res) : res[j] \in Range(dp_self) /\ nodes[res[j] + 1].priv # 0}

\* the recovered path secret with its place on the sender's direct path
recovered(at, secret) ==
  IF secret.ok THEN Returned([at |-> at, secret |-> secret.val]) ELSE Thrown

\* the ciphertext at the receiver's place in the resolution, opened with
\* the private key of that node
decrypt_at(nodes, kt, ratchet_node, at, res, js) ==
  IF js = {} \/ Len(ratchet_node.node_secrets) # Len(res)
  THEN Thrown
  ELSE recovered(
         at,
         DHPrivateKey_decrypt(
           DHPrivateKey_of(
             KeyPair(kt, nodes[res[CHOOSE j \in js : \A i \in js : j <= i] + 1].priv)),
           ratchet_node.node_secrets[CHOOSE j \in js : \A i \in js : j <= i]))

\* the co-path node below the common ancestor, on the receiver's side
decrypt_below(nodes, kt, path, at, below, dp_self) ==
  decrypt_at(nodes, kt, path.nodes[at], at, resolution(nodes, below),
             held(nodes, resolution(nodes, below), dp_self))

decrypt_from(nodes, kt, path, at, cp_from, dp_self) ==
  decrypt_below(nodes, kt, path, at, cp_from[at - 1], dp_self)

\* RatchetTree::decrypt_path: the path secret of the common ancestor of
\* the sender `from` and the receiver `index`; refused when the path has
\* not the length of the sender's direct path or the receiver is the sender
RatchetTree_decrypt_path(tree, kt, index, from, path) ==
  IF \/ from = index
     \/ 2 * from >= Len(tree.nodes)
     \/ Len(path.nodes) # Len(direct_path_of(2 * from, Len(tree.nodes)))
  THEN Thrown
  ELSE decrypt_from(tree.nodes, kt, path,
                    common_at(direct_path_of(2 * from, Len(tree.nodes)),
                              direct_path_of(2 * index, Len(tree.nodes))),
                    copath(2 * from, Len(tree.nodes)),
                    direct_path_of(2 * index, Len(tree.nodes)))

\* the nodes with the sender's direct path merged: public keys only below
\* the common ancestor, public key and derived private key from it upward
merged_nodes(nodes, kt, path, dp, at, secrets) ==
  [k \in 1..Len(nodes) |->
     IF (k - 1) \in Range(dp)
     THEN IF (CHOOSE m \in 1..Len(dp) : dp[m] = k - 1) < at
          THEN PublicNode(path.nodes[CHOOSE m \in 1..Len(dp) : dp[m] = k - 1].public_key)
          ELSE MergedNode(kt,
                          path.nodes[CHOOSE m \in 1..Len(dp) : dp[m] = k - 1].public_key,
                          secrets[(CHOOSE m \in 1..Len(dp) : dp[m] = k - 1) - at + 1])
     ELSE nodes[k]]

\* the tree with the path merged; the root secret is the last of the chain
merge_with(nodes, kt, path, dp, at, secrets) ==
  [nodes |-> merged_nodes(nodes, kt, path, dp, at, secrets),
   root_secret |-> secrets[Len(secrets)]]

\* RatchetTree::merge_path: the sender's public keys, and the secrets
\* s_at, ..., s_root derived from the recovered one
RatchetTree_merge_path(tree, kt, from, path, at, secret) ==
  merge_with(tree.nodes, kt, path, direct_path_of(2 * from, Len(tree.nodes)), at,
             path_secrets(secret,
                          Len(direct_path_of(2 * from, Len(tree.nodes))) - at + 1))

\* RatchetTree(suite, secrets): each secret in turn becomes a new leaf and
\* the path from it to the root
RECURSIVE tree_of_secrets(_, _, _, _)
tree_of_secrets(tree, kt, secrets, i) ==
  IF i > Len(secrets)
  THEN tree
  ELSE tree_of_secrets(
         RatchetTree_set_path(
           RatchetTree_add_leaf(tree, i - 1,
                                DHPrivateKey_derive(kt, secrets[i]).pub).val,
           kt, i - 1, secrets[i]),
         kt, secrets, i + 1)

RatchetTree_of_secrets(kt, secrets) == tree_of_secrets(RatchetTree_new, kt, secrets, 1)

-----------------------------------------------------------------------------
(* The ratchet tree: a tree is built from leaf secrets, leaves are removed *)
(* by blanking their paths, the tree goes over the wire, and a path update *)
(* from one leaf is received at another.                                   *)

MaxLeaves == 5
MaxRemoved == 2

\* the first leaf secret is random_bytes(32, seed + 1)
TreeSeeds == {0, 7}

\* the entropy of the path update
UpdateEntropy == 77

leaf_secrets(n, seed) == [i \in 1..n |-> random_bytes(32, seed + i)]

Built(seeds) ==
  [phase |-> "built", seeds |-> seeds, removed |-> {},
   tree |-> RatchetTree_of_secrets(dh_key_type, seeds)]

\* no two nodes have the same private key, as with secrets drawn at random
distinct_keys(nodes) ==
  \A i \in 1..Len(nodes), j \in 1..Len(nodes) :
    i < j /\ nodes[i] # Blank /\ nodes[j] # Blank => nodes[i].priv # nodes[j].priv

\* RatchetTree{ suite, { secrets } }
TreeBuild ==
  /\ rt.phase = "idle"
  /\ \E n \in 2..MaxLeaves, seed \in TreeSeeds :
       /\ rt' = Built(leaf_secrets(n, seed))
       /\ distinct_keys(rt'.tree.nodes)
  /\ UNCHANGED <<dh_key_type, notTree>>

\* ratchet_tree.blank_path(LeafIndex{ i }), as Remove does
TreeBlankPath ==
  /\ rt.phase = "built"
  /\ Cardinality(rt.removed) < MaxRemoved
  /\ \E i \in 0..(Len(rt.seeds) - 1) :
       /\ i \notin rt.removed
       /\ rt' = [rt EXCEPT !.tree = RatchetTree_blank_path(@, i),
                           !.removed = @ \cup {i}]
  /\ UNCHANGED <<dh_key_type, notTree>>

\* tls::marshal(ratchet_tree)
TreeMarshal ==
  /\ rt.phase = "built"
  /\ rt' = [phase |-> "marshaled", seeds |-> rt.seeds, removed |-> rt.removed,
            tree |-> rt.tree, wire |-> RatchetTree_write(<<>>, rt.tree.nodes)]
  /\ UNCHANGED <<dh_key_type, notTree>>

\* tls::unmarshal(marshaled, tree)
TreeUnmarshal ==
  /\ rt.phase = "marshaled"
  /\ rt' = [phase |-> "unmarshaled", seeds |-> rt.seeds, removed |-> rt.removed,
            tree |-> rt.tree, wire |-> rt.wire,
            decoded |-> RatchetTree_read(istream_new(rt.wire), dh_key_type)]
  /\ UNCHANGED <<dh_key_type, notTree>>

Updated(from, secret) ==
  [phase |-> "encrypted", seeds |-> rt.seeds, removed |-> rt.removed,
   before |-> rt.tree, from |-> from, secret |-> secret,
   path |-> RatchetTree_encrypt_path(rt.tree, dh_key_type, from, secret,
                                     UpdateEntropy),
   tree |-> RatchetTree_set_path(rt.tree, dh_key_type, from, secret)]

\* ratchet_tree.encrypt(LeafIndex{ from }, secret): a path update from a
\* leaf that has not been removed
TreeEncrypt ==
  /\ rt.phase = "built"
  /\ \E from \in 0..(Len(rt.seeds) - 1) :
       /\ from \notin rt.removed
       /\ rt' = Updated(from, random_bytes(32, 100 + from))
  /\ UNCHANGED <<dh_key_type, notTree>>

\* what the holder of leaf j knows of a tree: every public key, and the
\* private keys on its own direct path
ViewOf(tree, j) ==
  [nodes |->
     [k \in 1..Len(tree.nodes) |->
        IF tree.nodes[k] = Blank
        THEN Blank
        ELSE IF (k - 1) \in Range(direct_path_of(2 * j, Len(tree.nodes)))
             THEN tree.nodes[k]
             ELSE PublicNode(tree.nodes[k].public_key)],
   root_secret |-> tree.root_secret]

Merged(view, from, path, found) ==
  IF found.ok
  THEN Returned(RatchetTree_merge_path(view, dh_key_type, from, path,
                                       found.val.at, found.val.secret))
  ELSE Thrown

Received(view, j, from, path) ==
  Merged(view, from, path, RatchetTree_decrypt_path(view, dh_key_type, j, from, path))

\* the path update is received at leaf j, removed or not
TreeDecrypt ==
  /\ rt.phase = "encrypted"
  /\ \E j \in 0..(Len(rt.seeds) - 1) :
       /\ j # rt.from
       /\ rt' = [phase |-> "decrypted", seeds |-> rt.seeds, removed |-> rt.removed,
                 before |-> rt.before, from |-> rt.from, secret |-> rt.secret,
                 path |-> rt.path, tree |-> rt.tree, at |-> j,
                 view |-> Received(ViewOf(rt.before, j), j, rt.from, rt.path)]
  /\ UNCHANGED <<dh_key_type, notTree>>

TreeNext ==
  \/ TreeBuild
  \/ TreeBlankPath
  \/ TreeMarshal
  \/ TreeUnmarshal
  \/ TreeEncrypt
  \/ TreeDecrypt

TreeInit == TreeIdle /\ CodecIdle /\ CryptoIdle /\ GroupIdle /\ UnitsIdle

SpecTree == TreeInit /\ [][TreeNext]_vars

\* the node arrays of the trees of a state
TreesOf(r) ==
  {r.tree.nodes}
    \cup (IF r.phase = "unmarshaled" /\ r.decoded.ok THEN {r.decoded.val} ELSE {})
    \cup (IF r.phase \in {"encrypted", "decrypted"} THEN {r.before.nodes} ELSE {})
    \cup (IF r.phase = "decrypted" /\ r.view.ok THEN {r.view.val.nodes} ELSE {})

\* the same length, the same nodes blank, and the same public key octets
\* at every other node
SamePublic(a, b) ==
  /\ Len(a) = Len(b)
  /\ \A i \in 1..Len(a) :
       /\ (a[i] = Blank) = (b[i] = Blank)
       /\ a[i] # Blank /\ b[i] # Blank =>
            OpenSSLKey_marshal(a[i].public_key) = OpenSSLKey_marshal(b[i].public_key)

\* C8: two trees are equal iff they agree node by node on blank or filled
\* and on the public key, whatever private keys they hold; the tree built
\* from secrets is equal to what is unmarshalled from its wire encoding,
\* which holds no private key
C8_TreeEquality ==
  /\ rt.phase # "idle" =>
       \A a \in TreesOf(rt), b \in TreesOf(rt) : RatchetTree_eq(a, b) = SamePublic(a, b)
  /\ rt.phase = "unmarshaled" =>
       /\ rt.decoded.ok
       /\ \A i \in 1..Len(rt.decoded.val) :
            rt.decoded.val[i] # Blank => rt.decoded.val[i].priv = 0
       /\ RatchetTree_eq(rt.tree.nodes, rt.decoded.val)
       /\ RatchetTree_eq(rt.decoded.val, rt.tree.nodes)

C8_Witness ==
  /\ rt.phase = "unmarshaled"
  /\ rt.decoded.ok
  /\ Len(rt.tree.nodes) = 15
  /\ \E i \in 1..Len(rt.tree.nodes) : rt.tree.nodes[i] = Blank
  /\ \E i \in 1..Len(rt.tree.nodes) :
       /\ rt.tree.nodes[i] # Blank
       /\ rt.tree.nodes[i].priv # 0
       /\ rt.decoded.val[i].priv = 0
  /\ RatchetTree_eq(rt.tree.nodes, rt.decoded.val)

\* the private keys the holder of leaf r had in a tree
keys_held(tree, r) ==
  {tree.nodes[k + 1].priv : k \in Range(direct_path_of(2 * r, Len(tree.nodes)))}

\* one ciphertext opened with a private scalar
opened_with(priv, ct) ==
  DHPrivateKey_decrypt(DHPrivateKey_of(KeyPair(dh_key_type, priv)), ct)

\* the ciphertexts of one node of the path are those for the resolution
\* res of the co-path node, in its order, each opening to the path secret
\* under the key of its node, and none opening under a key in `gone`
only_for_resolution(nodes, res, node_secrets, secret, gone) ==
  /\ Len(node_secrets) = Len(res)
  /\ \A j \in 1..Len(node_secrets) :
       /\ nodes[res[j] + 1] # Blank
       /\ opened_with(nodes[res[j] + 1].priv, node_secrets[j]) = Returned(secret)
       /\ \A priv \in gone : ~opened_with(priv, node_secrets[j]).ok

\* C9: with leaves removed by blanking their paths, the path update from
\* another leaf carries, at each node of the path, one ciphertext for each
\* non-blank node of the resolution of the co-path node and no other:
\* none for a blank node, none that opens under a key a removed leaf held
C9_CiphertextsOnlyForResolution ==
  rt.phase = "encrypted" =>
    /\ rt.path.nodes[1].node_secrets = <<>>
    /\ \A k \in 2..Len(rt.path.nodes) :
         only_for_resolution(
           rt.before.nodes,
           resolution(rt.before.nodes,
                      copath(2 * rt.from, Len(rt.before.nodes))[k - 1]),
           rt.path.nodes[k].node_secrets,
           path_secrets(rt.secret, k)[k],
           UNION {keys_held(RatchetTree_of_secrets(dh_key_type, rt.seeds), r) :
                    r \in rt.removed})

\* leaves 1 and 2 of five removed and the update from leaf 4: the co-path
\* nodes 10 and 13 have empty resolutions, and node 3 is blank with the
\* resolution leaf 0 and leaf 3
C9_Witness ==
  /\ rt.phase = "encrypted"
  /\ rt.removed = {1, 2}
  /\ rt.from = 4
  /\ copath(8, Len(rt.before.nodes)) = <<10, 13, 3>>
  /\ rt.before.nodes[4] = Blank
  /\ resolution(rt.before.nodes, 3) = <<0, 6>>
  /\ Len(rt.path.nodes[2].node_secrets) = 0
  /\ Len(rt.path.nodes[4].node_secrets) = 2

-----------------------------------------------------------------------------
(* The group state machine (section 4.I of the design): the key schedule,  *)
(* the transcript hash and apply(handshake).                               *)

\* SHA256Digest(data).digest()
SHA256_of(data) == Squeeze(Absorb(7, data))

\* "init" and "confirmation"
init_label == <<105, 110, 105, 116>>
confirmation_label == <<99, 111, 110, 102, 105, 114, 109, 97, 116, 105, 111, 110>>

\* Handshake::epoch: prior_epoch + 1 on epoch_t, 32 bits
Handshake_epoch(h) == Truncate(AddByte(h.prior_epoch, 1), 4)

\* the canonical encoding of (prior_epoch, operation, signer_index), which
\* the signature covers
Handshake_to_be_signed(prior_epoch, operation, signer_index) ==
  ostream_write_uint(
    GroupOperation_write(ostream_write_uint(<<>>, prior_epoch, 4), operation),
    signer_index, 4)

\* Roster::add(index, credential) and Roster::remove(index)
Roster_add(roster, index, credential) ==
  [i \in 1..(IF index < Len(roster) THEN Len(roster) ELSE index + 1) |->
     IF i = index + 1
     THEN credential
     ELSE IF i <= Len(roster) THEN roster[i] ELSE Blank]

Roster_remove(roster, index) == [roster EXCEPT ![index + 1] = Blank]

\* the clones of the tree and the roster after the operation, when the
\* tree accepted it
operated(tree, roster) ==
  IF tree.ok THEN Returned([tree |-> tree.val, roster |-> roster]) ELSE Thrown

\* the init key of the new member for the suite of the group
init_key_of(init_key) ==
  OpenSSLKey_set_public(OpenSSLKey_create(dh_key_type), init_key.init_keys[1]).key

\* Add: the leaf is set to the init key, the path above it is blanked and
\* the credential enters the roster
handle_add(state, add) ==
  operated(RatchetTree_add_leaf(state.tree, ToNat(add.index), init_key_of(add.init_key)),
           Roster_add(state.roster, ToNat(add.index), add.init_key.credential))

\* a path update taken into the tree: by its sender from the leaf secret
\* it has cached, by any other member by decryption
handle_path(tree, self, from, path, secret) ==
  IF self = from
  THEN IF secret = NoSecret
       THEN Thrown
       ELSE Returned(RatchetTree_set_path(tree, dh_key_type, from, secret))
  ELSE Received(tree, self, from, path)

\* Update: the path of the signer
handle_update(state, self, signer, update, secret) ==
  operated(handle_path(state.tree, self, signer, update.path, secret), state.roster)

\* Remove: the leaf and its direct path are blanked, then the path of the
\* signer is taken in; the removed leaf must be a member, and not the signer
handle_remove(state, self, signer, remove, secret) ==
  IF \/ ToNat(remove.removed) >= Len(state.roster)
     \/ ToNat(remove.removed) = signer
     \/ state.roster[ToNat(remove.removed) + 1] = Blank
  THEN Thrown
  ELSE operated(
         handle_path(RatchetTree_blank_path(state.tree, ToNat(remove.removed)),
                     self, signer, remove.path, secret),
         Roster_remove(state.roster, ToNat(remove.removed)))

\* the operation applied to clones of the tree and the roster
handle(state, self, signer, op, secret) ==
  CASE op.type = GroupOperationType_add -> handle_add(state, op.add)
    [] op.type = GroupOperationType_update ->
         handle_update(state, self, signer, op.update, secret)
    [] op.type = GroupOperationType_remove ->
         handle_remove(state, self, signer, op.remove, secret)
    [] OTHER -> Thrown

\* the key schedule: init_secret and the confirmation of the new epoch,
\* both derived with the new state as context
keyed(new_state, epoch_secret) ==
  [state |-> [new_state EXCEPT !.init_secret =
                derive_secret(epoch_secret, init_label, new_state,
                              SHA256_DIGEST_LENGTH).val],
   confirmation |->
     hmac_sha256(derive_secret(epoch_secret, confirmation_label, new_state,
                               SHA256_DIGEST_LENGTH).val,
                 new_state.transcript_hash)]

\* the successor state of an operation and the confirmation it must carry:
\* transcript_hash = SHA-256(transcript_hash || marshal(operation)),
\* epoch_secret = HKDF-Extract(init_secret, update_secret), the update
\* secret being the root secret of the tree
advanced(state, epoch, op, result) ==
  keyed([group_id |-> state.group_id,
         epoch |-> epoch,
         roster |-> result.roster,
         tree |-> result.tree,
         transcript_hash |->
           SHA256_of(state.transcript_hash \o GroupOperation_write(<<>>, op)),
         init_secret |-> state.init_secret],
        hkdf_extract(state.init_secret, RatchetTree_root_secret(result.tree)))

\* the outcome of apply: the error, "none" on success, and the state after
outcome(error, state) == [error |-> error, state |-> state]

\* a variant that swaps the new tree and roster in before the confirmation
\* is compared
confirmed_late(state, h, next) ==
  IF next.confirmation = h.confirmation
  THEN outcome("none", next.state)
  ELSE outcome("confirmation",
               [state EXCEPT !.tree = next.state.tree, !.roster = next.state.roster])

\* step 5 and 6: the confirmation is compared, and only then the new state
\* is swapped in
confirmed(state, h, next) ==
  IF next.confirmation = h.confirmation
  THEN outcome("none", next.state)
  ELSE outcome("confirmation", state)

\* step 4: the operation on the clones
operate(state, h, result) ==
  IF result.ok
  THEN confirmed(state, h, advanced(state, Handshake_epoch(h), h.operation, result.val))
  ELSE outcome("operation", state)

\* steps 2 and 3: the signer is a member, and its key verifies the signature
verified(state, self, h, secret) ==
  IF \/ h.signer_index[3] # 0
     \/ h.signer_index[4] >= Len(state.roster)
     \/ state.roster[ToNat(h.signer_index) + 1] = Blank
  THEN outcome("signer", state)
  ELSE IF OpenSSLKey_verify(
            state.roster[ToNat(h.signer_index) + 1].public_key,
            Handshake_to_be_signed(h.prior_epoch, h.operation, h.signer_index),
            h.signature) # Returned(TRUE)
       THEN outcome("signature", state)
       ELSE operate(state, h,
                    handle(state, self, ToNat(h.signer_index), h.operation, secret))

\* a variant of apply's first step that lets every prior_epoch through
any_epoch(state, self, h, secret) == verified(state, self, h, secret)

\* State::apply(handshake), step 1: prior_epoch is the current epoch
apply(state, self, h, secret) ==
  IF h.prior_epoch # state.epoch
  THEN outcome("epoch", state)
  ELSE verified(state, self, h, secret)

-----------------------------------------------------------------------------
(* A group of two members, A at leaf 0 and B at leaf 1, and a third party  *)
(* at leaf 2 whom they add and remove.  Every handshake that was sent      *)
(* stays deliverable: to either member, any number of times, in any order, *)
(* as sent or changed on the way.                                          *)

MaxHandshakes == 2

Members == {"A", "B"}

LeafOf(p) == IF p = "A" THEN 0 ELSE 1

\* the leaf of the third party
Joiner == 2

\* the identity key of the member at a leaf, and its credential
identity_priv(leaf) == KeyPair(SIG_KEY_TYPE, 3 + 20 * leaf)

credential_of(leaf) ==
  Credential_basic(<<65 + leaf>>, PublicKeyOf(SIG_KEY_TYPE, 3 + 20 * leaf))

\* the UserInitKey of the third party, signed
joiner_init_key ==
  UserInitKey_sign(
    UserInitKey_add_init_key(
      UserInitKey_default, SuiteOf(dh_key_type),
      DHPrivateKey_derive(dh_key_type, random_bytes(32, 3)).pub),
    identity_priv(Joiner), credential_of(Joiner), 9).val

\* the epochs a run starts in: 0, and 2^32 - 2
\* a run starts in the group as created by its two members, at epoch 0, or
\* in the group as it is after a life of 2^32 - 2 epochs, the third party
\* added and removed again by B
Starts == {"created", "aged"}

\* the tree of the two members, as built from their leaf secrets
created_tree ==
  RatchetTree_of_secrets(dh_key_type, <<random_bytes(32, 1), random_bytes(32, 2)>>)

\* the state of a member of the group as created
\* the tree after the third party was added and B removed it
aged_tree ==
  RatchetTree_set_path(
    RatchetTree_blank_path(
      RatchetTree_of_secrets(
        dh_key_type,
        <<random_bytes(32, 1), random_bytes(32, 2), random_bytes(32, 3)>>),
      Joiner),
    dh_key_type, 1, random_bytes(32, 4))

\* the state of the member at a leaf when the run starts
\* the tree of the group when the run starts
start_tree(start) == IF start = "created" THEN created_tree ELSE aged_tree

\* the state of the member at a leaf when the run starts
created_state(start, tree, leaf) ==
  IF start = "created"
  THEN [group_id |-> <<7>>,
        epoch |-> Nat64(0),
        roster |-> <<credential_of(0), credential_of(1)>>,
        tree |-> ViewOf(tree, leaf),
        transcript_hash |-> <<>>,
        init_secret |-> zero_bytes(SHA256_DIGEST_LENGTH)]
  ELSE [group_id |-> <<7>>,
        epoch |-> U64(65535, 65534),
        roster |-> <<credential_of(0), credential_of(1), Blank>>,
        tree |-> ViewOf(tree, leaf),
        transcript_hash |-> SHA256_of(<<7>>),
        init_secret |-> random_bytes(SHA256_DIGEST_LENGTH, 90)]

GroupInit ==
  /\ CryptoIdle
  /\ CodecIdle
  /\ TreeIdle
  /\ UnitsIdle
  /\ \E start \in Starts :
       \E tree \in {start_tree(start)} :
         gstate = [p \in Members |-> created_state(start, tree, LeafOf(p))]
  /\ cached = [p \in Members |-> NoSecret]
  /\ network = <<>>
  /\ applied = [p \in Members |-> <<>>]
  /\ call = [error |-> "idle"]

\* the handshake of an operation: signed by the sender, and confirmed with
\* the key of the state the sender will be in
Handshake_made(state, self, op, next, entropy) ==
  Handshake_new(
    state.epoch, op, Nat64(self),
    OpenSSLKey_sign(identity_priv(self),
                    Handshake_to_be_signed(state.epoch, op, Nat64(self)),
                    entropy).val,
    next.confirmation)

Handshake_of(state, self, op, result, entropy) ==
  Handshake_made(
    state, self, op,
    advanced(state, Handshake_epoch([prior_epoch |-> state.epoch]), op, result.val),
    entropy)

\* the sender works the operation out on its own state
Sent(p, op, secret) ==
  /\ handle(gstate[p], LeafOf(p), LeafOf(p), op, secret).ok
  /\ network' = Append(network,
                       Handshake_of(gstate[p], LeafOf(p), op,
                                    handle(gstate[p], LeafOf(p), LeafOf(p), op, secret),
                                    5 + Len(network)))
  /\ cached' = [cached EXCEPT ![p] = secret]
  /\ UNCHANGED <<gstate, applied, call, dh_key_type, notGroup>>

\* a member may send one handshake in an epoch
MaySend(p) ==
  /\ call.error = "idle"
  /\ Len(network) < MaxHandshakes
  /\ \A i \in 1..Len(network) :
       ~(/\ network[i].signer_index = Nat64(LeafOf(p))
         /\ network[i].prior_epoch = gstate[p].epoch)

\* the leaf secret of the next path update
fresh_secret == random_bytes(32, 20 + Len(network))

\* State::add(user_init_key)
SendAdd(p) ==
  /\ MaySend(p)
  /\ Sent(p, GroupOperation_from_Add(Add_new(Nat64(Joiner), joiner_init_key, <<>>)),
          NoSecret)

\* State::update(leaf_secret)
SendUpdate(p) ==
  /\ MaySend(p)
  /\ Sent(p,
          GroupOperation_from_Update(
            Update_from_path(
              RatchetTree_encrypt_path(gstate[p].tree, dh_key_type, LeafOf(p),
                                       fresh_secret, 40 + Len(network)))),
          fresh_secret)

\* State::remove(index): the path is encrypted on the tree with the
\* removed leaf blanked
SendRemove(p) ==
  /\ MaySend(p)
  /\ Len(gstate[p].roster) > Joiner
  /\ gstate[p].roster[Joiner + 1] # Blank
  /\ Sent(p,
          GroupOperation_from_Remove(
            Remove_from(
              Nat64(Joiner),
              RatchetTree_encrypt_path(
                RatchetTree_blank_path(gstate[p].tree, Joiner), dh_key_type,
                LeafOf(p), fresh_secret, 40 + Len(network)))),
          fresh_secret)

\* what may happen to a handshake on the way
Tampers == {"none", "confirmation", "signature", "signer"}

\* one bit of a byte changed
flipped(b) == IF b % 2 = 0 THEN b + 1 ELSE b - 1

Tampered(h, tamper) ==
  CASE tamper = "confirmation" -> [h EXCEPT !.confirmation[1] = flipped(@)]
    [] tamper = "signature" -> [h EXCEPT !.signature[2] = flipped(@)]
    [] tamper = "signer" -> [h EXCEPT !.signer_index = Nat64(Joiner)]
    [] OTHER -> h

Landed(p, i, tamper, h, result) ==
  /\ gstate' = [gstate EXCEPT ![p] = result.state]
  /\ applied' = IF result.error = "none"
                THEN [applied EXCEPT ![p] = Append(@, i)]
                ELSE applied
  /\ call' = [who |-> p, id |-> i, tamper |-> tamper, error |-> result.error,
              handshake |-> h, before |-> gstate[p]]
  /\ UNCHANGED <<cached, network, dh_key_type, notGroup>>

\* state.apply(handshake) at member p, of the i-th handshake sent
Deliver(p, i, tamper) ==
  /\ call.error = "idle"
  /\ i \in 1..Len(network)
  /\ Landed(p, i, tamper, Tampered(network[i], tamper),
            apply(gstate[p], LeafOf(p), Tampered(network[i], tamper), cached[p]))

\* the caller has seen the outcome of apply
Acknowledge ==
  /\ call.error # "idle"
  /\ call' = [error |-> "idle"]
  /\ UNCHANGED <<gstate, cached, network, applied, dh_key_type, notGroup>>

GroupNext ==
  \/ \E p \in Members : SendAdd(p)
  \/ \E p \in Members : SendUpdate(p)
  \/ \E p \in Members : SendRemove(p)
  \/ \E p \in Members, i \in 1..MaxHandshakes, tamper \in Tampers : Deliver(p, i, tamper)
  \/ Acknowledge

SpecGroup == GroupInit /\ [][GroupNext]_vars

\* apply has returned, with an error or without
Called == call.error # "idle"

\* C2: whenever apply fails (prior_epoch is not the epoch, the signer is
\* blank or unknown, the signature is invalid, the operation cannot be
\* worked out, or one bit of the confirmation is wrong) the GroupState
\* after the call is the GroupState before it, in every field
C2_ApplyAllOrNothing ==
  Called /\ call.error # "none" => gstate[call.who] = call.before

\* a Remove with one bit of its confirmation changed, at the epoch it was
\* made for: the clones held a blanked leaf and a new path, the state has
\* none of it
C2_Witness ==
  /\ Called
  /\ call.error = "confirmation"
  /\ call.tamper = "confirmation"
  /\ call.handshake.operation.type = GroupOperationType_remove
  /\ call.handshake.prior_epoch = call.before.epoch
  /\ gstate[call.who] = call.before
  /\ gstate[call.who].roster[Joiner + 1] # Blank

\* C3: a handshake whose prior_epoch is not the receiver's epoch is
\* rejected for its epoch and leaves the state as it was, whatever was
\* delivered before it: late, early or a second time; and what is applied
\* was made for the receiver's epoch
C3_StaleRejected ==
  /\ Called /\ call.handshake.prior_epoch # call.before.epoch =>
       /\ call.error = "epoch"
       /\ gstate[call.who] = call.before
  /\ Called /\ call.error = "none" =>
       call.handshake.prior_epoch = call.before.epoch

\* a handshake the member has applied is delivered to it again, unchanged
C3_Witness ==
  /\ Called
  /\ call.tamper = "none"
  /\ call.error = "epoch"
  /\ \E k \in 1..Len(applied[call.who]) : applied[call.who][k] = call.id
  /\ gstate[call.who] = call.before

\* a < b for two epochs, as the numbers they are
EpochLess(a, b) == a[3] < b[3] \/ (a[3] = b[3] /\ a[4] < b[4])

\* C4: a successful apply of h moves the epoch from h.prior_epoch to
\* h.prior_epoch + 1, a greater number, and a failed apply leaves it
C4_EpochMonotone ==
  /\ Called /\ call.error = "none" =>
       /\ call.before.epoch = call.handshake.prior_epoch
       /\ gstate[call.who].epoch = Handshake_epoch(call.handshake)
       /\ EpochLess(call.before.epoch, gstate[call.who].epoch)
  /\ Called /\ call.error # "none" => gstate[call.who].epoch = call.before.epoch

\* C5: two members that have applied the same handshakes in the same order
\* have equal trees and the same root secret
C5_TreeConsistency ==
  \A p \in Members, q \in Members :
    applied[p] = applied[q] =>
      /\ RatchetTree_eq(gstate[p].tree.nodes, gstate[q].tree.nodes)
      /\ RatchetTree_root_secret(gstate[p].tree) = RatchetTree_root_secret(gstate[q].tree)

\* both members have applied an Add and then a path update: the tree has
\* grown, and each holds private keys the other does not
C5_Witness ==
  /\ applied["A"] = applied["B"]
  /\ Len(applied["A"]) = 2
  /\ network[applied["A"][1]].operation.type = GroupOperationType_add
  /\ network[applied["A"][2]].operation.type # GroupOperationType_add
  /\ Len(gstate["A"].tree.nodes) = 7
  /\ gstate["A"].tree.nodes # gstate["B"].tree.nodes
  /\ RatchetTree_eq(gstate["A"].tree.nodes, gstate["B"].tree.nodes)

-----------------------------------------------------------------------------
(* Key objects (crypto.cpp:745-1110).  A DHPublicKey or SignaturePublicKey  *)
(* is its std::unique_ptr<OpenSSLKey>: the OpenSSLKey it points to, or      *)
(* NullKeyPtr once it has been moved from.  A DHPrivateKey or               *)
(* SignaturePrivateKey is its _key pointer and its cached _pub.  The four   *)
(* classes share their code line by line; what differs is the key type and  *)
(* the dup the public key's copy calls.                                     *)

\* a null std::unique_ptr<OpenSSLKey>
NullKeyPtr == [kt |-> "nullptr", key |-> NullPKEY]

\* a call that dereferenced a null pointer: the process has ended
Crash == [crashed |-> TRUE]

KeyClasses ==
  {"DHPublicKey", "DHPrivateKey", "SignaturePublicKey", "SignaturePrivateKey"}

IsPrivate(cls) == cls \in {"DHPrivateKey", "SignaturePrivateKey"}
IsDH(cls) == cls \in {"DHPublicKey", "DHPrivateKey"}

\* X25519Key::dup: a new key from the raw private key, or dup_public when
\* there is none; P256Key::dup: EC_KEY_dup, which copies the scalar, the
\* point and the conversion form
OpenSSLKey_dup(k) ==
  IF k.kt = "X25519"
  THEN IF k.key.priv # 0 THEN KeyPair(k.kt, k.key.priv) ELSE OpenSSLKey_dup_public(k)
  ELSE k

\* DHPublicKey() / SignaturePublicKey(): _key(OpenSSLKey::create(...))
PublicKey_default(kt) == OpenSSLKey_create(kt)

\* DHPublicKey(const DHPublicKey& other): _key(other._key->dup());
\* SignaturePublicKey(const SignaturePublicKey& other):
\* _key(other._key->dup_public()).  other._key is dereferenced, and so is
\* the EVP_PKEY in the dup
PublicKey_copy(cls, other) ==
  IF other = NullKeyPtr \/ other.key = NullPKEY
  THEN Crash
  ELSE IF IsDH(cls) THEN OpenSSLKey_dup(other) ELSE OpenSSLKey_dup_public(other)

\* DHPublicKey::operator==: *_key == *other._key
PublicKey_eq(a, b) ==
  IF a = NullKeyPtr \/ b = NullKeyPtr
  THEN [completed |-> FALSE, val |-> FALSE]
  ELSE [completed |-> TRUE, val |-> OpenSSLKey_eq(a, b)]

\* DHPublicKey::reset(data): _key->set_public(data); a set_public that
\* throws leaves the key as it was
PublicKey_set(obj, data) ==
  IF obj = NullKeyPtr THEN Crash ELSE OpenSSLKey_set_public(obj, data)

\* DHPrivateKey() = default: a null _key and a default-constructed _pub
PrivateKey_default(kt) == [key |-> NullKeyPtr, pub |-> PublicKey_default(kt)]

\* the object a move has taken the pointers from
PrivateKey_moved == [key |-> NullKeyPtr, pub |-> NullKeyPtr]

\* a variant of the copy that leaves the cached public key as it was
copy_key_only(cls, this, other) ==
  IF other.key = NullKeyPtr \/ other.key.key = NullPKEY
  THEN Crash
  ELSE [key |-> OpenSSLKey_dup(other.key), pub |-> this.pub]

\* DHPrivateKey(const DHPrivateKey& other): _key(other._key->dup()),
\* _pub(other._pub); operator=(const DHPrivateKey& other), when this is
\* not other: _key.reset(other._key->dup()); _pub = other._pub
PrivateKey_copy(cls, this, other) ==
  IF \/ other.key = NullKeyPtr
     \/ other.key.key = NullPKEY
     \/ PublicKey_copy(cls, other.pub) = Crash
  THEN Crash
  ELSE [key |-> OpenSSLKey_dup(other.key), pub |-> PublicKey_copy(cls, other.pub)]

\* DHPrivateKey::operator==: *_key == *other._key
PrivateKey_eq(a, b) == PublicKey_eq(a.key, b.key)

\* DHPrivateKey::public_key
PrivateKey_public_key(obj) == obj.pub

\* the operations by class
KeyObject_default(cls, kt) ==
  IF IsPrivate(cls) THEN PrivateKey_default(kt) ELSE PublicKey_default(kt)
KeyObject_moved(cls) == IF IsPrivate(cls) THEN PrivateKey_moved ELSE NullKeyPtr
KeyObject_copy(cls, this, other) ==
  IF IsPrivate(cls) THEN PrivateKey_copy(cls, this, other) ELSE PublicKey_copy(cls, other)
KeyObject_eq(cls, a, b) == IF IsPrivate(cls) THEN PrivateKey_eq(a, b) ELSE PublicKey_eq(a, b)

\* a variant of derive that salts the seed with random bytes
derive_salted(kt, seed, entropy) ==
  DHPrivateKey_derive(kt, seed \o random_bytes(1, entropy))

\* DHPrivateKey::derive(seed) in a run whose random source would return
\* `entropy`: derive does not call it
derive_in_run(kt, seed, entropy) == DHPrivateKey_derive(kt, seed)

-----------------------------------------------------------------------------
(* Key objects as a state machine: two objects of one class in a scope,    *)
(* constructed, assigned, moved, parsed and compared.                      *)

Slots == {"a", "b"}

\* DH_KEY_TYPE or SIG_KEY_TYPE
KeyTypeOf(cls) == IF IsDH(cls) THEN dh_key_type ELSE SIG_KEY_TYPE

\* the seeds of derive
Seeds == {<<1>>, random_bytes(32, 5)}
Unseeded == [seed |-> <<>>, run |-> 0]

\* the scalars of the public keys that are parsed
ParsedScalars == {3, 50}

\* the octets given to reset: the keys of ParsedScalars in the forms the key
\* type has, and octets that are not a key
KeyOctets(kt) ==
  IF kt = "P256"
  THEN {i2o_ECPublicKey([PublicKeyOf(kt, d).key EXCEPT !.form = f]) :
          d \in ParsedScalars, f \in {2, 4}}
       \cup {<<>>, <<4, BasePoint(kt, 3), (PointY(BasePoint(kt, 3)) + 1) % 256>>}
  ELSE {<<BasePoint(kt, d)>> : d \in ParsedScalars}
       \cup {<<>>, <<BasePoint(kt, 3), BasePoint(kt, 3)>>}

KeysInit ==
  /\ dh_key_type \in KeyTypes
  /\ hpke = [phase |-> "idle"]
  /\ signing = [phase |-> "idle"]
  /\ kdf = [phase |-> "idle"]
  /\ CodecIdle
  /\ TreeIdle
  /\ GroupIdle
  /\ UnitsIdle

KeysLive == keys.phase = "live"

\* the scope after a call that returned
KeysAfter(objs, seeded, last) ==
  /\ keys' = [phase |-> "live", cls |-> keys.cls, objs |-> objs,
              seeded |-> seeded, last |-> last]
  /\ UNCHANGED <<dh_key_type, notKeys>>

\* the process after a call that dereferenced a null pointer
KeysCrashed(last) ==
  /\ keys' = [phase |-> "crashed", cls |-> keys.cls, last |-> last]
  /\ UNCHANGED <<dh_key_type, notKeys>>

\* X a; X b;
KeysOpen ==
  /\ keys.phase = "idle"
  /\ \E cls \in KeyClasses :
       keys' = [phase |-> "live", cls |-> cls,
                objs |-> [s \in Slots |->
                            KeyObject_default(cls, KeyTypeOf(cls))],
                seeded |-> [s \in Slots |-> Unseeded],
                last |-> [op |-> "open"]]
  /\ UNCHANGED <<dh_key_type, notKeys>>

\* s = DHPrivateKey::generate(); s = SignaturePrivateKey::generate()
KeysGenerate(s) ==
  /\ KeysLive
  /\ IsPrivate(keys.cls)
  /\ \E entropy \in Entropy :
       KeysAfter([keys.objs EXCEPT
                    ![s] = DHPrivateKey_generate(KeyTypeOf(keys.cls), entropy)],
                 [keys.seeded EXCEPT ![s] = Unseeded],
                 [op |-> "generate", dst |-> s, before |-> keys.objs])

\* s = DHPrivateKey::derive(seed)
KeysDerive(s) ==
  /\ KeysLive
  /\ keys.cls = "DHPrivateKey"
  /\ \E seed \in Seeds, entropy \in Entropy :
       KeysAfter([keys.objs EXCEPT
                    ![s] = derive_in_run(KeyTypeOf(keys.cls), seed, entropy)],
                 [keys.seeded EXCEPT ![s] = [seed |-> seed, run |-> entropy]],
                 [op |-> "derive", dst |-> s, before |-> keys.objs])

\* operator>>(tls::istream& in, DHPublicKey& obj) and the same operator of
\* SignaturePublicKey: in >> data, then obj.reset(data); a read that throws
\* does not come to reset
PublicKey_in(obj, bytes) ==
  IF read_opaque(istream_new(bytes), 2).ok
  THEN PublicKey_set(obj, read_opaque(istream_new(bytes), 2).val)
  ELSE [ok |-> FALSE, key |-> obj]

\* the bytes of a stream: whole, or without the last byte
StreamCuts(bytes) == {bytes, SubSeq(bytes, 1, Len(bytes) - 1)}

\* the scope after s.reset(data) has returned or thrown
KeysResetDone(s, via, data, set) ==
  IF set = Crash
  THEN KeysCrashed([op |-> "reset", dst |-> s, before |-> keys.objs])
  ELSE KeysAfter([keys.objs EXCEPT ![s] = set.key], keys.seeded,
                 [op |-> "reset", via |-> via, dst |-> s, before |-> keys.objs,
                  data |-> data, ok |-> set.ok])

\* s.reset(data)
KeysReset(s) ==
  /\ KeysLive
  /\ ~IsPrivate(keys.cls)
  /\ \E data \in KeyOctets(KeyTypeOf(keys.cls)) :
       \/ KeysResetDone(s, "reset", data, PublicKey_set(keys.objs[s], data))
       \/ \E bytes \in StreamCuts(write_opaque(<<>>, data, 2)) :
            KeysResetDone(s, "stream", bytes, PublicKey_in(keys.objs[s], bytes))

\* the scope after dst has been copied from src
KeysCopied(op, dst, src, copy) ==
  IF copy = Crash
  THEN KeysCrashed([op |-> op, dst |-> dst, src |-> src, before |-> keys.objs])
  ELSE KeysAfter([keys.objs EXCEPT ![dst] = copy],
                 [keys.seeded EXCEPT ![dst] = Unseeded],
                 [op |-> op, dst |-> dst, src |-> src, before |-> keys.objs])

\* s = X::generate().public_key(): the copy of a private key's cached
\* public key
KeysPublicOf(s) ==
  /\ KeysLive
  /\ ~IsPrivate(keys.cls)
  /\ \E entropy \in Entropy :
       KeysCopied("public_key", s, s,
                  PublicKey_copy(
                    keys.cls,
                    PrivateKey_public_key(
                      DHPrivateKey_generate(KeyTypeOf(keys.cls), entropy))))

\* X dst(src): the object that was in dst has gone out of scope
KeysCopyConstruct(dst, src) ==
  /\ KeysLive
  /\ dst # src
  /\ KeysCopied("copy_construct", dst, src,
                KeyObject_copy(keys.cls,
                               KeyObject_default(keys.cls, KeyTypeOf(keys.cls)),
                               keys.objs[src]))

\* dst = src: nothing is done when they are the same object
KeysCopyAssign(dst, src) ==
  /\ KeysLive
  /\ IF dst = src
     THEN KeysAfter(keys.objs, keys.seeded,
                    [op |-> "copy_assign", dst |-> dst, src |-> src,
                     before |-> keys.objs])
     ELSE KeysCopied("copy_assign", dst, src,
                     KeyObject_copy(keys.cls, keys.objs[dst], keys.objs[src]))

\* the scope after dst has taken the pointers of src
KeysMoved(op, dst, src) ==
  KeysAfter([keys.objs EXCEPT ![dst] = keys.objs[src],
                              ![src] = KeyObject_moved(keys.cls)],
            [keys.seeded EXCEPT ![dst] = Unseeded, ![src] = Unseeded],
            [op |-> op, dst |-> dst, src |-> src, before |-> keys.objs])

\* X dst(std::move(src))
KeysMoveConstruct(dst, src) ==
  /\ KeysLive
  /\ dst # src
  /\ KeysMoved("move_construct", dst, src)

\* dst = std::move(src): nothing is done when they are the same object
KeysMoveAssign(dst, src) ==
  /\ KeysLive
  /\ IF dst = src
     THEN KeysAfter(keys.objs, keys.seeded,
                    [op |-> "move_assign", dst |-> dst, src |-> src,
                     before |-> keys.objs])
     ELSE KeysMoved("move_assign", dst, src)

\* the scope after a == b and a != b
KeysCompared(a, b, eq) ==
  IF ~eq.completed
  THEN KeysCrashed([op |-> "eq", a |-> keys.objs[a], b |-> keys.objs[b],
                    completed |-> FALSE, result |-> FALSE, differs |-> FALSE])
  ELSE KeysAfter(keys.objs, keys.seeded,
                 [op |-> "eq", a |-> keys.objs[a], b |-> keys.objs[b],
                  completed |-> TRUE, result |-> eq.val, differs |-> ~eq.val])

\* a == b; a != b is !(a == b)
KeysCompare(a, b) ==
  /\ KeysLive
  /\ KeysCompared(a, b, KeyObject_eq(keys.cls, keys.objs[a], keys.objs[b]))

\* the ways a key is parsed from the bytes of another
ParseWays == {"ctor", "reset", "stream"}

\* X(data): a default-constructed key, then reset(data); in >> obj: the
\* opaque<2> is read, then obj.reset(data)
Parsed(via, kt, target, bytes) ==
  CASE via = "ctor" -> PublicKey_set(PublicKey_default(kt), bytes)
    [] via = "reset" -> PublicKey_set(target, bytes)
    [] OTHER ->
         [ok |-> PublicKey_read(istream_new(write_opaque(<<>>, bytes, 2)), kt).ok,
          key |-> PublicKey_read(istream_new(write_opaque(<<>>, bytes, 2)), kt).val]

\* the scope after dst has been parsed from the bytes of src
KeysParsed(via, dst, src, bytes, out) ==
  IF out = Crash
  THEN KeysCrashed([op |-> "parse", via |-> via, from |-> keys.objs[src]])
  ELSE KeysAfter([keys.objs EXCEPT ![dst] = IF out.ok THEN out.key ELSE @],
                 keys.seeded,
                 [op |-> "parse", via |-> via, from |-> keys.objs[src],
                  bytes |-> bytes, out |-> out])

\* dst = X(src.to_bytes()); dst.reset(src.to_bytes()); out << src; in >> dst
KeysParse(dst, src) ==
  /\ KeysLive
  /\ ~IsPrivate(keys.cls)
  /\ dst # src
  /\ keys.objs[src] # NullKeyPtr
  /\ OpenSSLKey_marshal(keys.objs[src]).ok
  /\ \E via \in ParseWays :
       KeysParsed(via, dst, src, OpenSSLKey_marshal(keys.objs[src]).val,
                  Parsed(via, KeyTypeOf(keys.cls), keys.objs[dst],
                         OpenSSLKey_marshal(keys.objs[src]).val))

KeysNext ==
  \/ KeysOpen
  \/ \E s \in Slots : KeysGenerate(s)
  \/ \E s \in Slots : KeysDerive(s)
  \/ \E s \in Slots : KeysReset(s)
  \/ \E s \in Slots : KeysPublicOf(s)
  \/ \E dst, src \in Slots : KeysCopyConstruct(dst, src)
  \/ \E dst, src \in Slots : KeysCopyAssign(dst, src)
  \/ \E dst, src \in Slots : KeysMoveConstruct(dst, src)
  \/ \E dst, src \in Slots : KeysMoveAssign(dst, src)
  \/ \E a, b \in Slots : KeysCompare(a, b)
  \/ \E dst, src \in Slots : KeysParse(dst, src)

SpecKeys == KeysInit /\ [][KeysNext]_vars

\* the key material an object holds: none, or the EVP_PKEY of its _key
HasMaterial(ptr) == ptr # NullKeyPtr /\ ptr.key # NullPKEY
KeyPtrOf(cls, obj) == IF IsPrivate(cls) THEN obj.key ELSE obj

C13_ParseInvertsMarshal ==
  KeysLive /\ keys.last.op = "parse" =>
    /\ keys.last.out.ok
    /\ PublicKey_eq(keys.last.out.key, keys.last.from)
         = [completed |-> TRUE, val |-> TRUE]
    /\ keys.last.out.key.key.type = keys.last.from.key.type
    /\ keys.last.out.key.key.pub = keys.last.from.key.pub

\* a P-256 key held in the compressed form has come back from the stream
C13_Witness ==
  /\ KeysLive
  /\ keys.last.op = "parse"
  /\ keys.last.via = "stream"
  /\ keys.cls = "SignaturePublicKey"
  /\ keys.last.from.key.form = 2
  /\ Len(keys.last.bytes) = 2
  /\ keys.last.out.ok

\* C17: every private key object that holds a private key returns from
\* public_key() the public key of that private key
C17_PublicKeyMatches ==
  KeysLive /\ IsPrivate(keys.cls) =>
    \A s \in Slots :
      HasMaterial(keys.objs[s].key) /\ keys.objs[s].key.key.priv # 0 =>
        /\ HasMaterial(PrivateKey_public_key(keys.objs[s]))
        /\ PrivateKey_public_key(keys.objs[s]).key.type = keys.objs[s].key.key.type
        /\ PrivateKey_public_key(keys.objs[s]).key.pub
             = BasePoint(keys.objs[s].key.kt, keys.objs[s].key.key.priv)

\* an object that held one private key has been copy-assigned another
C17_Witness ==
  /\ KeysLive
  /\ keys.cls = "SignaturePrivateKey"
  /\ keys.last.op = "copy_assign"
  /\ keys.last.dst # keys.last.src
  /\ HasMaterial(keys.last.before[keys.last.dst].key)
  /\ keys.last.before[keys.last.dst].key.key.priv
       # keys.last.before[keys.last.src].key.key.priv
  /\ keys.objs[keys.last.dst].key.key.priv
       = keys.last.before[keys.last.src].key.key.priv

\* C24: a failed public-key parse leaves the target unchanged: when reset,
\* or the operator>> that calls it, raises because the bytes are not a valid
\* public key, the key object holds exactly the key material it held before
C24_FailedParseKeepsKey ==
  KeysLive /\ keys.last.op = "reset" /\ ~keys.last.ok =>
    keys.objs[keys.last.dst] = keys.last.before[keys.last.dst]

\* a key that held key material was read from a stream whose opaque<2> is
\* whole and is not a public key, and still holds that material
C24_Witness ==
  /\ KeysLive
  /\ keys.last.op = "reset"
  /\ keys.last.via = "stream"
  /\ ~keys.last.ok
  /\ read_opaque(istream_new(keys.last.data), 2).ok
  /\ HasMaterial(keys.last.before[keys.last.dst])
  /\ keys.objs[keys.last.dst] = keys.last.before[keys.last.dst]

\* C18: for two objects of one key class, a == b completes, is true exactly
\* when neither holds key material or both hold the same, and a != b is its
\* negation
C18_EqualityTotal ==
  keys.phase \in {"live", "crashed"} /\ keys.last.op = "eq" =>
    /\ keys.last.completed
    /\ keys.last.result
         = \/ /\ ~HasMaterial(KeyPtrOf(keys.cls, keys.last.a))
              /\ ~HasMaterial(KeyPtrOf(keys.cls, keys.last.b))
           \/ /\ HasMaterial(KeyPtrOf(keys.cls, keys.last.a))
              /\ HasMaterial(KeyPtrOf(keys.cls, keys.last.b))
              /\ KeyPtrOf(keys.cls, keys.last.a).key.type
                   = KeyPtrOf(keys.cls, keys.last.b).key.type
              /\ KeyPtrOf(keys.cls, keys.last.a).key.pub
                   = KeyPtrOf(keys.cls, keys.last.b).key.pub
    /\ keys.last.differs = ~keys.last.result

-----------------------------------------------------------------------------
(* tls::ostream and tls::istream as a state machine (tls_syntax.cpp): a    *)
(* writer to which unsigned integers are written, or a reader over an      *)
(* input from which they are read.                                         *)

\* throw ReadError("Attempt to read from empty buffer")
ReadError == Exception("ReadError", "Attempt to read from empty buffer")

\* the widths of operator<< and operator>>: uint8_t .. uint64_t
UintLengths == {1, 2, 4, 8}

\* the values written, before their conversion to the type written
UintValues ==
  {<<0, 0, 0, 0>>, <<0, 0, 0, 255>>, <<258, 772, 1286, 1800>>,
   <<32768, 0, 0, 1>>, <<65535, 65535, 65535, 65535>>}

\* the inputs read
MaxWrites == 2
StreamInputs ==
  {<<>>, <<7>>, <<1, 2, 3>>, <<128, 0, 255>>,
   <<1, 2, 3, 4, 5, 6, 7, 8, 9>>,
   <<255, 254, 253, 252, 251, 250, 249, 248, 247, 246, 245, 244>>}

StreamInit ==
  /\ stream = [phase |-> "idle"]
  /\ aead = [phase |-> "idle"]
  /\ keys = [phase |-> "idle"]
  /\ gop = [phase |-> "idle"]
  /\ scoped = [phase |-> "idle"]
  /\ CodecIdle
  /\ CryptoIdle
  /\ TreeIdle
  /\ GroupIdle

\* tls::ostream out;
OstreamOpen ==
  /\ stream.phase = "idle"
  /\ stream' = [phase |-> "ostream", buffer |-> <<>>, writes |-> 0,
                last |-> [op |-> "open"]]
  /\ UNCHANGED notStream

\* out << data, for data of a type of `length` bytes: write_uint(data, length)
OstreamWrite(length) ==
  /\ stream.phase = "ostream"
  /\ stream.writes < MaxWrites
  /\ \E value \in UintValues :
       stream' = [phase |-> "ostream",
                  buffer |-> ostream_write_uint(stream.buffer,
                                                Truncate(value, length), length),
                  writes |-> stream.writes + 1,
                  last |-> [op |-> "write", length |-> length,
                            value |-> Truncate(value, length),
                            before |-> stream.buffer]]
  /\ UNCHANGED notStream

\* tls::istream in(data); `read` counts the bytes that have been taken
IstreamOpen ==
  /\ stream.phase = "idle"
  /\ \E data \in StreamInputs :
       stream' = [phase |-> "istream", data |-> data,
                  buffer |-> istream_new(data), read |-> 0,
                  last |-> [op |-> "open"]]
  /\ UNCHANGED notStream

\* the reader after read_uint has returned, or after next() has thrown on
\* the buffer it had emptied
IstreamAfter(length, r) ==
  IF r.ok
  THEN stream' = [stream EXCEPT
                    !.buffer = r.buf,
                    !.read = @ + length,
                    !.last = [op |-> "read", length |-> length, at |-> stream.read,
                              ok |-> TRUE, value |-> r.val,
                              thrown |-> NoException]]
  ELSE stream' = [stream EXCEPT
                    !.buffer = <<>>,
                    !.read = Len(stream.data),
                    !.last = [op |-> "read", length |-> length, at |-> stream.read,
                              ok |-> FALSE, value |-> <<0, 0, 0, 0>>,
                              thrown |-> ReadError]]

\* in >> data, for data of a type of `length` bytes: read_uint(data, length)
IstreamRead(length) ==
  /\ stream.phase = "istream"
  /\ stream.last.op = "read" => stream.last.ok
  /\ IstreamAfter(length, istream_read_uint(stream.buffer, length))
  /\ UNCHANGED notStream

StreamNext ==
  \/ OstreamOpen
  \/ \E length \in UintLengths : OstreamWrite(length)
  \/ IstreamOpen
  \/ \E length \in UintLengths : IstreamRead(length)

SpecStream == StreamInit /\ [][StreamNext]_vars

\* the bytes of a uint64_t, most significant first
Bytes8(v) ==
  <<v[1] \div 256, v[1] % 256, v[2] \div 256, v[2] % 256,
    v[3] \div 256, v[3] % 256, v[4] \div 256, v[4] % 256>>

\* the uint64_t of at most eight bytes read as a big-endian number
BigEndian(bytes) ==
  [j \in 1..4 |->
     (IF 2 * j - 1 > 8 - Len(bytes) THEN bytes[2 * j - 1 - (8 - Len(bytes))] ELSE 0) * 256
     + (IF 2 * j > 8 - Len(bytes) THEN bytes[2 * j - (8 - Len(bytes))] ELSE 0)]

\* C14: a read of a uintN from a reader that has fewer than N/8 bytes left
\* throws the codec's error, and the error carries the position at which
\* the read failed
C14_ShortReadError ==
  stream.phase = "istream" /\ stream.last.op = "read" =>
    /\ stream.last.ok <=> Len(stream.data) - stream.last.at >= stream.last.length
    /\ ~stream.last.ok =>
         /\ stream.last.thrown.kind = "ReadError"
         /\ "position" \in DOMAIN stream.last.thrown
         /\ stream.last.thrown.position = Len(stream.data)

\* C15: a write of a uintN value appends N/8 bytes, the most significant
\* first, and leaves the bytes written before as they were
C15_WriteBigEndian ==
  stream.phase = "ostream" /\ stream.last.op = "write" =>
    /\ Len(stream.buffer) = Len(stream.last.before) + stream.last.length
    /\ SubSeq(stream.buffer, 1, Len(stream.last.before)) = stream.last.before
    /\ SubSeq(stream.buffer, Len(stream.last.before) + 1, Len(stream.buffer))
         = SubSeq(Bytes8(stream.last.value), 9 - stream.last.length, 8)

\* a uint64_t of eight different bytes has been written after a uint16_t
C15_Witness ==
  /\ stream.phase = "ostream"
  /\ stream.last.op = "write"
  /\ stream.last.length = 8
  /\ stream.last.value = <<258, 772, 1286, 1800>>
  /\ Len(stream.last.before) = 2
  /\ stream.buffer[3] = 1
  /\ stream.buffer[10] = 8

\* C19: the reader takes its input head first: a read of a uintN returns
\* the big-endian value of the next N/8 bytes that have not been read, and
\* what is left starts at the byte after them
C19_HeadFirst ==
  stream.phase = "istream" /\ stream.last.op = "read" /\ stream.last.ok =>
    /\ stream.last.value
         = BigEndian(SubSeq(stream.data, stream.last.at + 1,
                            stream.last.at + stream.last.length))
    /\ stream.read = stream.last.at + stream.last.length
    /\ Reverse(stream.buffer)
         = SubSeq(stream.data, stream.read + 1, Len(stream.data))

\* a uint32_t has been read after a byte, from an input of nine bytes
C19_Witness ==
  /\ stream.phase = "istream"
  /\ stream.last.op = "read"
  /\ stream.last.ok
  /\ stream.last.at = 1
  /\ stream.last.length = 4
  /\ stream.last.value = <<0, 0, 515, 1029>>
  /\ Len(stream.buffer) = 4

-----------------------------------------------------------------------------
(* GroupOperation objects as each constructor leaves them (messages.h).   *)
(* A member without an initialiser holds what its storage held before.    *)

\* the values a GroupOperationType (uint8_t) without an initialiser can hold
TypeStorage == 0..255

OperationInit ==
  /\ CodecIdle
  /\ CryptoIdle
  /\ TreeIdle
  /\ GroupIdle
  /\ UnitsIdle

Constructed(how, op) == [phase |-> "built", how |-> how, op |-> op]

\* GroupOperation op;
OperationDefault ==
  /\ gop.phase = "idle"
  /\ \E junk \in TypeStorage : gop' = Constructed("default", GroupOperation_default(junk))
  /\ UNCHANGED notOp

\* GroupOperation op(suite);
OperationForSuite ==
  /\ gop.phase = "idle"
  /\ \E suite \in Suites, junk \in TypeStorage :
       gop' = Constructed("suite", GroupOperation_new(suite, junk))
  /\ UNCHANGED notOp

\* GroupOperation op(Add{ index, init_key, welcome_info_hash });
OperationFromAdd ==
  /\ gop.phase = "idle"
  /\ \E tv \in TestVectors :
       gop' = Constructed("Add", GroupOperation_from_Add(
                             Add_new(tv.index, user_init_key_c(tv), tv.random)))
  /\ UNCHANGED notOp

\* GroupOperation op(Update{ path });
OperationFromUpdate ==
  /\ gop.phase = "idle"
  /\ \E tv \in TestVectors :
       gop' = Constructed("Update",
                    GroupOperation_from_Update(Update_from_path(direct_path(tv))))
  /\ UNCHANGED notOp

\* GroupOperation op(Remove{ removed, path });
OperationFromRemove ==
  /\ gop.phase = "idle"
  /\ \E tv \in TestVectors :
       gop' = Constructed("Remove",
                    GroupOperation_from_Remove(
                      Remove_from(tv.index, direct_path(tv))))
  /\ UNCHANGED notOp

OperationNext ==
  \/ OperationDefault \/ OperationForSuite
  \/ OperationFromAdd \/ OperationFromUpdate \/ OperationFromRemove

SpecOperation == OperationInit /\ [][OperationNext]_vars

\* the arms of an operation that hold something
Populated(op) ==
  {t \in {GroupOperationType_add, GroupOperationType_update,
          GroupOperationType_remove} :
     \/ t = GroupOperationType_add /\ op.add # Add_default
     \/ t = GroupOperationType_update /\ op.update.path.nodes # <<>>
     \/ t = GroupOperationType_remove /\ op.remove.path.nodes # <<>>}

TypeOf(how) ==
  CASE how = "Add" -> GroupOperationType_add
    [] how = "Update" -> GroupOperationType_update
    [] OTHER -> GroupOperationType_remove

\* C22: every GroupOperation, however constructed (default, from a suite,
\* from an Add, Update or Remove), has a type tag in {1, 2, 3} and no arm
\* but the one the tag selects is populated; constructing from an Add,
\* Update or Remove sets the tag to that operation's type
C22_TaggedUnion ==
  gop.phase = "built" =>
    /\ gop.op.type \in {GroupOperationType_add, GroupOperationType_update,
                        GroupOperationType_remove}
    /\ Populated(gop.op) \subseteq {gop.op.type}
    /\ gop.how \in {"Add", "Update", "Remove"} => gop.op.type = TypeOf(gop.how)

-----------------------------------------------------------------------------
(* Scoped<T> (crypto.h): a handle holds a raw pointer _raw to a native     *)
(* object; TypedDelete frees the object, TypedDup makes a new one.         *)
(* Pointers are the numbers of the native objects in the order of their    *)
(* allocation, 0 is nullptr.                                               *)

MaxObjects == 3
Handles == {"a", "b"}
nullptr == 0

\* a scope in which no handle has been declared and nothing is allocated
EmptyScope ==
  [phase |-> "live",
   status |-> [h \in Handles |-> "none"],
   raw |-> [h \in Handles |-> nullptr],
   allocated |-> 0,
   freed |-> [o \in 1..MaxObjects |-> 0],
   released |-> [o \in 1..MaxObjects |-> FALSE],
   thrown |-> FALSE]

Scope == IF scoped.phase = "idle" THEN EmptyScope ELSE scoped

\* a native object comes into being (EC_KEY_new, EVP_MD_CTX_create, ...)
Allocate(s) == [s EXCEPT !.allocated = @ + 1]

\* TypedDelete(ptr): the object is freed, once more if it was freed before
TypedDelete(s, ptr) ==
  [s EXCEPT !.freed[ptr] = IF @ < 2 THEN @ + 1 ELSE @]

\* TypedDup(ptr) (EC_KEY_dup, EC_GROUP_dup): a new object, nullptr of nullptr
TypedDup(s, ptr) ==
  IF ptr = nullptr
  THEN [scope |-> s, ptr |-> nullptr]
  ELSE [scope |-> Allocate(s), ptr |-> s.allocated + 1]

\* throw OpenSSLError::current()
Throw(s) == [s EXCEPT !.thrown = TRUE]

\* void adopt(T* raw)
Scoped_adopt(s, h, ptr) ==
  IF ptr = nullptr
  THEN Throw(s)
  ELSE [s EXCEPT !.raw[h] = ptr, !.released[ptr] = FALSE]

\* void clear()
Scoped_clear(s, h) ==
  IF s.raw[h] # nullptr
  THEN [TypedDelete(s, s.raw[h]) EXCEPT !.raw[h] = nullptr]
  ELSE s

\* T* release()
Scoped_release(s, h) ==
  IF s.raw[h] # nullptr
  THEN [s EXCEPT !.released[s.raw[h]] = TRUE, !.raw[h] = nullptr]
  ELSE s

\* a constructor that has run to its end has made the object
Made(s, h) == IF s.thrown THEN s ELSE [s EXCEPT !.status[h] = "alive"]

\* Scoped()
Scoped_default(s, h) == Made([s EXCEPT !.raw[h] = nullptr], h)

\* Scoped(T* raw) { adopt(raw); }
Scoped_from_raw(s, h, ptr) == Made(Scoped_adopt(s, h, ptr), h)

\* Scoped(const Scoped& other) { adopt(TypedDup(other._raw)); }
Scoped_copy(s, h, other) ==
  Made(Scoped_adopt(TypedDup(s, s.raw[other]).scope, h,
                    TypedDup(s, s.raw[other]).ptr), h)

\* Scoped(Scoped&& other)
Scoped_move_construct(s, h, other) ==
  Made([s EXCEPT !.raw[h] = s.raw[other], !.raw[other] = nullptr], h)

\* Scoped& operator=(const Scoped& other): clear(), then the copy is made
\* of what `other` holds by then
Scoped_copy_assign(s, h, other) ==
  Scoped_adopt(TypedDup(Scoped_clear(s, h), Scoped_clear(s, h).raw[other]).scope,
               h,
               TypedDup(Scoped_clear(s, h), Scoped_clear(s, h).raw[other]).ptr)

\* Scoped& operator=(Scoped&& other): _raw = other._raw; other._raw = nullptr
Scoped_move_assign(s, h, other) ==
  [[s EXCEPT !.raw[h] = s.raw[other]] EXCEPT !.raw[other] = nullptr]

\* void move(Scoped& other): adopt(other._raw); other._raw = nullptr
Scoped_move(s, h, other) ==
  IF Scoped_adopt(s, h, s.raw[other]).thrown
  THEN Scoped_adopt(s, h, s.raw[other])
  ELSE [Scoped_adopt(s, h, s.raw[other]) EXCEPT !.raw[other] = nullptr]

\* ~Scoped() { clear(); }
Scoped_destroy(s, h) == [Scoped_clear(s, h) EXCEPT !.status[h] = "destroyed"]

\* the scope at the start of a call
Call == [Scope EXCEPT !.thrown = FALSE]

\* the pointers a caller can hand to a handle: nullptr, an object it has
\* just allocated, an object it got back from release()
Given(s) ==
  {[scope |-> s, ptr |-> nullptr]}
    \cup {[scope |-> s, ptr |-> o] : o \in {x \in 1..s.allocated : s.released[x]}}
    \cup (IF s.allocated < MaxObjects
          THEN {[scope |-> Allocate(s), ptr |-> s.allocated + 1]}
          ELSE {})

Declared(h) == Scope.status[h] = "alive"
Undeclared(h) == Scope.status[h] = "none"

\* TypedDup has an object left to allocate
CanDup == Scope.allocated < MaxObjects

ScopedInit ==
  /\ CodecIdle
  /\ CryptoIdle
  /\ TreeIdle
  /\ GroupIdle
  /\ UnitsIdle

\* Scoped<T> h;
ScopedDefault(h) ==
  /\ Undeclared(h)
  /\ scoped' = Scoped_default(Call, h)
  /\ UNCHANGED notScoped

\* Scoped<T> h(raw);
ScopedFromRaw(h) ==
  /\ Undeclared(h)
  /\ \E g \in Given(Call) : scoped' = Scoped_from_raw(g.scope, h, g.ptr)
  /\ UNCHANGED notScoped

\* Scoped<T> h(other);
ScopedCopyConstruct(h, other) ==
  /\ Undeclared(h) /\ Declared(other) /\ CanDup
  /\ scoped' = Scoped_copy(Call, h, other)
  /\ UNCHANGED notScoped

\* Scoped<T> h(std::move(other));
ScopedMoveConstruct(h, other) ==
  /\ Undeclared(h) /\ Declared(other)
  /\ scoped' = Scoped_move_construct(Call, h, other)
  /\ UNCHANGED notScoped

\* h = other;  (h = h included)
ScopedCopyAssign(h, other) ==
  /\ Declared(h) /\ Declared(other) /\ CanDup
  /\ scoped' = Scoped_copy_assign(Call, h, other)
  /\ UNCHANGED notScoped

\* h = std::move(other);  (h = std::move(h) included)
ScopedMoveAssign(h, other) ==
  /\ Declared(h) /\ Declared(other)
  /\ scoped' = Scoped_move_assign(Call, h, other)
  /\ UNCHANGED notScoped

\* h.move(other);
ScopedMove(h, other) ==
  /\ Declared(h) /\ Declared(other)
  /\ scoped' = Scoped_move(Call, h, other)
  /\ UNCHANGED notScoped

\* h.adopt(raw);
ScopedAdopt(h) ==
  /\ Declared(h)
  /\ \E g \in Given(Call) : scoped' = Scoped_adopt(g.scope, h, g.ptr)
  /\ UNCHANGED notScoped

\* raw = h.release();
ScopedRelease(h) ==
  /\ Declared(h)
  /\ scoped' = Scoped_release(Call, h)
  /\ UNCHANGED notScoped

\* h.clear();
ScopedClear(h) ==
  /\ Declared(h)
  /\ scoped' = Scoped_clear(Call, h)
  /\ UNCHANGED notScoped

\* h goes out of scope
ScopedDestroy(h) ==
  /\ Declared(h)
  /\ scoped' = Scoped_destroy(Call, h)
  /\ UNCHANGED notScoped

ScopedNext ==
  \E h \in Handles :
    \/ ScopedDefault(h) \/ ScopedFromRaw(h)
    \/ ScopedAdopt(h) \/ ScopedRelease(h) \/ ScopedClear(h) \/ ScopedDestroy(h)
    \/ \E other \in Handles :
         \/ h # other /\ ScopedCopyConstruct(h, other)
         \/ h # other /\ ScopedMoveConstruct(h, other)
         \/ ScopedCopyAssign(h, other)
         \/ ScopedMoveAssign(h, other)
         \/ ScopedMove(h, other)

SpecScoped == ScopedInit /\ [][ScopedNext]_vars

\* every handle that was declared has been destroyed
AllDestroyed ==
  /\ scoped.phase = "live"
  /\ \E h \in Handles : scoped.status[h] = "destroyed"
  /\ \A h \in Handles : scoped.status[h] # "alive"

\* two live handles hold the same object
OwnedTwice ==
  \E h, other \in Handles :
    /\ h # other
    /\ scoped.status[h] = "alive" /\ scoped.status[other] = "alive"
    /\ scoped.raw[h] # nullptr
    /\ scoped.raw[h] = scoped.raw[other]

\* C23: for any sequence of operations on Scoped<T> handles, every native
\* object a handle has adopted and not handed back through release() is
\* freed exactly once by the time all handles are destroyed: never leaked,
\* never freed twice, never owned by two handles at once
C23_FreedExactlyOnce ==
  scoped.phase = "live" =>
    /\ \A o \in 1..scoped.allocated : scoped.freed[o] <= 1
    /\ ~OwnedTwice
    /\ AllDestroyed =>
         \A o \in 1..scoped.allocated :
           ~scoped.released[o] => scoped.freed[o] = 1

=============================================================================
